---- MODULE Spec2Model ----
(***************************************************************************)
(* A model of the Missing Migrants dashboards: app.py (the optimized Dash  *)
(* app with the lru_cache'd filter), app_advanced.py and the legacy        *)
(* Missing_Migrants_061121.py.  One behaviour is one server process: the   *)
(* CSV is read and preprocessed at import time (Init), then callbacks run. *)
(***************************************************************************)
EXTENDS Integers, Sequences, FiniteSets, TLC

VARIABLES
    prog,       \* which script the process runs: "app", "app_advanced", "legacy"
    columns,    \* header of the CSV file read at start-up
    source,     \* rows of the CSV file, as read_csv delivers them
    MM,         \* the module-level DataFrame MM (a sequence of rows)
    cache,      \* lru_cache of _filter_mm_data_cached: <<key, value>> pairs, oldest first
    data,       \* the "data" property of the dcc.Store the callbacks share
    sel,        \* the values of the five dropdowns in the browser
    ret,        \* the last callback invocation: its name, arguments and outcome
    issued      \* a count: selections of the sweep issued (SpecCache), runs of
                \* standardize_columns.py (SpecPipeline), n_clicks (SpecDownload)

vars == <<prog, columns, source, MM, cache, data, sel, ret, issued>>

(***************************************************************************)
(* Values.  Python values of different types meet in one cell or argument  *)
(* (a year may be "All", 2020, "2020" or None), so every value carries its *)
(* type: <<"int", n>>, <<"str", s>>, None, NaN (a missing cell: NaN, NaT,  *)
(* pd.NA), <<"datetime", d>> and <<"iso", d>> (a timestamp as JSON text).  *)
(***************************************************************************)
IntV(n) == <<"int", n>>
StrV(s) == <<"str", s>>
Datetime(d) == <<"datetime", d>>
Iso(d) == <<"iso", d>>
None == <<"none", "">>
NaN == <<"nan", "">>
All == StrV("All")

IsInt(v) == v[1] = "int"
IsStr(v) == v[1] = "str"
IsNull(v) == v[1] \in {"nan", "none"}

\* Python truthiness of a scalar: None, 0 and "" are falsy.
Falsy(v) == v = None \/ v = IntV(0) \/ v = StrV("")

\* `x or "All"`
OrAll(v) == IF Falsy(v) THEN All ELSE v

\* `x not in (None, "All")`
Constrains(v) == v # None /\ v # All

(***************************************************************************)
(* Bounds of the model.                                                    *)
(***************************************************************************)
MaxRows == 2

\* Distinct selections a process is followed through in SpecCache.
MaxSweep == 132

\* functools.lru_cache(maxsize=128)
maxsize == 128

(***************************************************************************)
(* The CSV file.  StandardColumns is the header standardize_columns.py     *)
(* writes; ShortColumns is a file with the same data columns and fewer     *)
(* than 30 columns in all.                                                 *)
(***************************************************************************)
StandardColumns ==
    << "Incident_ID", "Incident_Type", "Region", "Reported_Date", "Reported_Year",
       "Reported_Month", "Number_Dead", "Minimum_Missing", "Total_Dead_and_Missing",
       "Survivors", "Females", "Males", "Children", "Country of Origin",
       "Region of Origin", "Country of Incident", "Migration_Route",
       "Location Description", "Coordinates", "UNSD_Geographical_Grouping",
       "Info Source", "URL", "Source Quality",
       "Other Accidents", "Drowning", "Lack of Shelter, Food, or Water",
       "Mixed or unknown", "Sickness", "Transportation Accident", "Violence",
       "Latitude", "Longitude", "Log_Dead", "URL1", "Unknown_Sex",
       "Unknown_Age_Status", "Country", "Confirmed_Adults", "Date" >>

\* A file without the descriptive columns no dashboard reads: 29 columns.
Undescribed(c) ==
    c \notin {"Incident_Type", "Reported_Month", "Survivors", "Country of Origin",
              "Region of Origin", "Country of Incident", "Location Description",
              "Coordinates", "UNSD_Geographical_Grouping", "Info Source"}

ShortColumns == SelectSeq(StandardColumns, Undescribed)

Range(s) == {s[i] : i \in DOMAIN s}

\* The cause-of-death categories whose flag varies in the modelled rows; the
\* flags of the other categories are 0 in every row.
FlaggedCods == {"Drowning", "Violence"}

BaseRow ==
    [ Incident_ID |-> IntV(1),
      Reported_Year |-> IntV(2020),
      Region |-> StrV("Europe"),
      Country |-> StrV("Greece"),
      Migration_Route |-> StrV("Central Mediterranean"),
      cod |-> {"Drowning"},
      Number_Dead |-> IntV(1),
      Minimum_Missing |-> IntV(1),
      Total_Dead_and_Missing |-> IntV(2),
      Reported_Date |-> StrV("2020-01-15"),
      Latitude |-> IntV(35),
      Longitude |-> IntV(18),
      Females |-> IntV(1),
      Males |-> IntV(1),
      Children |-> IntV(0),
      Unknown_Sex |-> IntV(0),
      Unknown_Age_Status |-> IntV(0),
      Confirmed_Adults |-> IntV(2) ]

\* Rows that differ in the five filterable dimensions (single-row files).
DimRows ==
    { [BaseRow EXCEPT !.Reported_Year = y, !.Region = r, !.Country = c, !.cod = f] :
        y \in {IntV(2020), IntV(2021), NaN},
        r \in {StrV("Europe"), StrV("Americas")},
        c \in {StrV("Greece"), NaN},
        f \in {{"Drowning"}, {"Violence"}, {"Drowning", "Violence"}} }

\* Rows that differ in identifier, grouping keys and counts (files of
\* several rows).  The file's own Total_Dead_and_Missing may disagree with
\* Number_Dead + Minimum_Missing, and a count cell may fail to parse.
AggRows ==
    { BaseRow,
      [BaseRow EXCEPT !.Number_Dead = IntV(2), !.Minimum_Missing = IntV(0),
                      !.Total_Dead_and_Missing = IntV(5),
                      !.Country = StrV("Italy")],
      [BaseRow EXCEPT !.Incident_ID = IntV(2), !.Reported_Year = IntV(2021),
                      !.Region = StrV("Americas"), !.Country = StrV("Mexico"),
                      !.Migration_Route = StrV("US-Mexico border crossing"),
                      !.cod = {"Violence"}, !.Number_Dead = IntV(3),
                      !.Minimum_Missing = IntV(1),
                      !.Total_Dead_and_Missing = IntV(4),
                      !.Reported_Date = StrV("2021-03-02")],
      [BaseRow EXCEPT !.Incident_ID = IntV(2), !.Region = NaN, !.Country = NaN,
                      !.cod = {}, !.Number_Dead = StrV("n/a"),
                      !.Minimum_Missing = IntV(4),
                      !.Total_Dead_and_Missing = IntV(4),
                      !.Reported_Date = StrV("unknown")] }

SeqsUpTo(S, n) == UNION {[1..k -> S] : k \in 0..n}

Files == {<<r>> : r \in DimRows} \cup SeqsUpTo(AggRows, MaxRows)

(***************************************************************************)
(* Conversions of pandas.                                                  *)
(***************************************************************************)
\* The decimal numerals among the modelled strings, with their values.
Numerals ==
    {<<"2020", 2020>>, <<"2021", 2021>>, <<"1999", 1999>>, <<"0", 0>>,
     <<"35", 35>>, <<"18", 18>>, <<"1000", 1000>>}

IsNumeral(s) == \E p \in Numerals : p[1] = s
NumeralValue(s) == (CHOOSE p \in Numerals : p[1] = s)[2]

\* The modelled strings that parse as a date.
DateStrings == {"2020-01-15", "2021-03-02"}

\* int(x) of Python: the integer itself, the value of a numeral, else ValueError.
PyInt(v) ==
    CASE IsInt(v) -> [exc |-> "", val |-> v[2]]
      [] IsStr(v) /\ IsNumeral(v[2]) -> [exc |-> "", val |-> NumeralValue(v[2])]
      [] IsStr(v) -> [exc |-> "ValueError", val |-> 0]
      [] OTHER -> [exc |-> "TypeError", val |-> 0]

\* pd.to_numeric(cell, errors="coerce")
ToNumeric(cell) ==
    CASE IsInt(cell) -> cell
      [] IsStr(cell) /\ IsNumeral(cell[2]) -> IntV(NumeralValue(cell[2]))
      [] OTHER -> NaN

\* .fillna(0)
FillZero(cell) == IF IsNull(cell) THEN IntV(0) ELSE cell

\* pd.to_datetime(cell, errors="ignore"), which keeps what does not parse:
\* what C17 rules out.
ToDatetimeIgnore(cell) ==
    CASE cell[1] = "datetime" -> cell
      [] cell[1] \in {"str", "iso"} /\ cell[2] \in DateStrings -> Datetime(cell[2])
      [] OTHER -> cell

\* pd.to_datetime(cell, errors="coerce")
ToDatetimeCoerce(cell) ==
    CASE cell[1] = "datetime" -> cell
      [] cell[1] \in {"str", "iso"} /\ cell[2] \in DateStrings -> Datetime(cell[2])
      [] OTHER -> NaN

\* pd.to_datetime(column) with the default errors="raise": whether it raises.
ToDatetimeRaises(df) ==
    \E i \in DOMAIN df :
        LET cell == df[i].Reported_Date
        IN  cell[1] \in {"str", "iso"} /\ cell[2] \notin DateStrings

(***************************************************************************)
(* Start-up: each script's preprocessing of the file it read.              *)
(***************************************************************************)
Has(cols, c) == c \in Range(cols)

\* app.py, section A.
LoadAppRow(cols, r) ==
    LET dead == IF Has(cols, "Number_Dead")
                THEN FillZero(ToNumeric(r.Number_Dead)) ELSE r.Number_Dead
        missing == IF Has(cols, "Minimum_Missing")
                   THEN FillZero(ToNumeric(r.Minimum_Missing)) ELSE r.Minimum_Missing
    IN  [r EXCEPT
            !.Reported_Date = IF Has(cols, "Reported_Date")
                              THEN ToDatetimeCoerce(@) ELSE @,
            !.Number_Dead = dead,
            !.Minimum_Missing = missing,
            !.Total_Dead_and_Missing =
                IF Has(cols, "Number_Dead") /\ Has(cols, "Minimum_Missing")
                THEN IntV(FillZero(dead)[2] + FillZero(missing)[2]) ELSE @,
            !.Reported_Year = IF Has(cols, "Reported_Year") THEN ToNumeric(@) ELSE @]

LoadApp(cols, src) == [i \in DOMAIN src |-> LoadAppRow(cols, src[i])]

\* app_advanced.py, load_data: the count columns are made numeric, and
\* Total_Dead_and_Missing keeps the value of the file.
LoadAdvancedRow(cols, r) ==
    [r EXCEPT
        !.Reported_Date = IF Has(cols, "Reported_Date") THEN ToDatetimeCoerce(@) ELSE @,
        !.Total_Dead_and_Missing =
            IF Has(cols, "Total_Dead_and_Missing") THEN FillZero(ToNumeric(@)) ELSE @,
        !.Number_Dead = IF Has(cols, "Number_Dead") THEN FillZero(ToNumeric(@)) ELSE @,
        !.Minimum_Missing =
            IF Has(cols, "Minimum_Missing") THEN FillZero(ToNumeric(@)) ELSE @,
        !.Latitude = IF Has(cols, "Latitude") THEN FillZero(ToNumeric(@)) ELSE @,
        !.Longitude = IF Has(cols, "Longitude") THEN FillZero(ToNumeric(@)) ELSE @,
        !.Females = IF Has(cols, "Females") THEN FillZero(ToNumeric(@)) ELSE @,
        !.Males = IF Has(cols, "Males") THEN FillZero(ToNumeric(@)) ELSE @,
        !.Children = IF Has(cols, "Children") THEN FillZero(ToNumeric(@)) ELSE @,
        !.Unknown_Sex = IF Has(cols, "Unknown_Sex") THEN FillZero(ToNumeric(@)) ELSE @,
        !.Unknown_Age_Status =
            IF Has(cols, "Unknown_Age_Status") THEN FillZero(ToNumeric(@)) ELSE @]

\* load_data adds Primary_COD when the file has all seven cause columns.
AdvancedCodColumns ==
    <<"Other Accidents", "Drowning", "Lack of Shelter, Food, or Water",
      "Mixed or unknown", "Sickness", "Transportation Accident", "Violence">>

HasPrimaryCod(cols) == \A c \in Range(AdvancedCodColumns) : Has(cols, c)

\* The last category whose flag is 1: what C30 rules out.
get_primary_cod_last(r) ==
    LET flagged == {k \in DOMAIN AdvancedCodColumns : AdvancedCodColumns[k] \in r.cod}
    IN  IF flagged = {} THEN StrV("Unknown")
        ELSE StrV(AdvancedCodColumns[CHOOSE k \in flagged : \A j \in flagged : j <= k])

\* get_primary_cod(row): the first category of COD_COLUMNS whose flag is 1.
get_primary_cod(r) ==
    LET flagged == {k \in DOMAIN AdvancedCodColumns : AdvancedCodColumns[k] \in r.cod}
    IN  IF flagged = {} THEN StrV("Unknown")
        ELSE StrV(AdvancedCodColumns[CHOOSE k \in flagged : \A j \in flagged : k <= j])

\* df['Primary_COD'] = df.apply(get_primary_cod, axis=1)
WithPrimaryCod(cols, r) ==
    IF HasPrimaryCod(cols)
    THEN [k \in DOMAIN r \cup {"Primary_COD"} |->
             IF k = "Primary_COD" THEN get_primary_cod(r) ELSE r[k]]
    ELSE r

load_data(cols, src) ==
    [i \in DOMAIN src |-> WithPrimaryCod(cols, LoadAdvancedRow(cols, src[i]))]

\* Missing_Migrants_061121.py: MM = pd.read_csv("MM_dummies.csv"), as read.
LoadLegacy(src) == src

Load(p, cols, src) ==
    CASE p = "app" -> LoadApp(cols, src)
      [] p = "app_advanced" -> load_data(cols, src)
      [] OTHER -> LoadLegacy(src)

\* app.py: COD_COLUMNS = list(MM.columns[23:30]) if MM.shape[1] >= 30 else []
COD_COLUMNS(cols) == IF Len(cols) >= 30 THEN SubSeq(cols, 24, 30) ELSE <<>>

\* The 0/1 indicator of column c in row r.
Flag(r, c) == IF c \in r.cod THEN 1 ELSE 0

(***************************************************************************)
(* Selections: the five dropdown values a callback is handed.              *)
(***************************************************************************)
YearChoices == <<All, IntV(2020), IntV(1999), IntV(0), StrV("2020"), StrV("abc"), None>>
RegionChoices == <<All, StrV("Europe"), StrV("Atlantis")>>
CountryChoices == <<All, StrV("Greece"), StrV("Narnia")>>
CodChoices == <<All, StrV("Drowning"), StrV("Poison")>>
RouteChoices == <<All, StrV("Central Mediterranean"), StrV("Silk Road")>>

YearValues == Range(YearChoices)
RegionValues == Range(RegionChoices)
CountryValues == Range(CountryChoices)
CodValues == Range(CodChoices)
RouteValues == Range(RouteChoices)

Selections ==
    [year : YearValues, region : RegionValues, country : CountryValues,
     cod : CodValues, route : RouteValues]

(***************************************************************************)
(* app.py, section D: _filter_mm_data_cached.                              *)
(***************************************************************************)
\* Boolean masks of pandas hold True, False or NA (a comparison with a
\* missing Int64 cell); & is Kleene conjunction.
And3(a, b) ==
    CASE a = "F" \/ b = "F" -> "F"
      [] a = "NA" \/ b = "NA" -> "NA"
      [] OTHER -> "T"

Bool3(b) == IF b THEN "T" ELSE "F"

\* df["Reported_Year"] == n, the column being Int64 (nullable).
YearEq(cell, n) == IF IsNull(cell) THEN "NA" ELSE Bool3(cell = IntV(n))

\* df[col] == value, the column being categorical: a missing cell, and a
\* value that is no category, compare False.
CatEq(cell, v) == Bool3(~IsNull(cell) /\ cell = v)

\* The selected key is one of COD_COLUMNS.
KnownCod(cols, v) == IsStr(v) /\ v[2] \in Range(COD_COLUMNS(cols))

\* mask, row by row, after the five `mask &=` steps.
MaskRow(cols, r, s) ==
    LET m0 == "T"
        m1 == IF Constrains(s.year)
              THEN And3(m0, YearEq(r.Reported_Year, PyInt(s.year).val)) ELSE m0
        m2 == IF Constrains(s.region) THEN And3(m1, CatEq(r.Region, s.region)) ELSE m1
        m3 == IF Constrains(s.country) THEN And3(m2, CatEq(r.Country, s.country)) ELSE m2
        m4 == IF Constrains(s.route)
              THEN And3(m3, CatEq(r.Migration_Route, s.route)) ELSE m3
        m5 == IF Constrains(s.cod) /\ KnownCod(cols, s.cod)
              THEN And3(m4, Bool3(Flag(r, s.cod[2]) = 1)) ELSE m4
    IN  m5

Mask(cols, df, s) == [i \in DOMAIN df |-> MaskRow(cols, df[i], s)]

\* df.loc[mask]: the index labels whose mask is True, in index order (NA
\* selects nothing).
\* The same rows taken last-first: what C8 rules out.
LocReversed(df, mask) ==
    LET idx == [i \in DOMAIN df |-> Len(df) + 1 - i]
    IN  SelectSeq(idx, LAMBDA i : mask[i] = "T")

Loc(df, mask) ==
    LET idx == [i \in DOMAIN df |-> i]
    IN  SelectSeq(idx, LAMBDA i : mask[i] = "T")

\* filtered.to_dict("records"): one dict per kept row, in the order of Loc.
ToDictRecords(df, kept) == [k \in DOMAIN kept |-> df[kept[k]]]

\* The body of _filter_mm_data_cached (what runs on a cache miss).
FilterMM(cols, df, s) ==
    IF Constrains(s.year) /\ PyInt(s.year).exc # ""
    THEN [exc |-> PyInt(s.year).exc, val |-> <<>>]
    ELSE [exc |-> "", val |-> ToDictRecords(df, Loc(df, Mask(cols, df, s)))]

(***************************************************************************)
(* functools.lru_cache(maxsize=128): the key is the tuple of the five      *)
(* positional arguments; a hit moves the entry to the most recent end, a   *)
(* miss computes, stores and, when full, drops the oldest entry; a call    *)
(* that raises stores nothing.                                             *)
(***************************************************************************)
\* A key that leaves the route out: what C7 rules out.
CacheKeyWithoutRoute(s) == <<s.year, s.region, s.country, s.cod, All>>

CacheKey(s) == <<s.year, s.region, s.country, s.cod, s.route>>

Position(c, key) == CHOOSE i \in DOMAIN c : c[i].key = key

Without(c, i) == [k \in 1..(Len(c) - 1) |-> IF k < i THEN c[k] ELSE c[k + 1]]

\* <<outcome, cache afterwards>> of one call of the decorated function.
CachedCall(cols, df, c, s) ==
    LET key == CacheKey(s)
    IN  IF \E i \in DOMAIN c : c[i].key = key
        THEN LET i == Position(c, key)
             IN  <<[exc |-> "", val |-> c[i].value], Append(Without(c, i), c[i])>>
        ELSE CHOOSE call \in
                 { IF res.exc # "" THEN <<res, c>>
                   ELSE IF Len(c) >= maxsize
                        THEN <<res, Append(Tail(c), [key |-> key, value |-> res.val])>>
                        ELSE <<res, Append(c, [key |-> key, value |-> res.val])>> :
                   res \in {FilterMM(cols, df, s)} } : TRUE

(***************************************************************************)
(* What the browser holds: a callback's return value as JSON.              *)
(***************************************************************************)
JsonCell(cell) ==
    CASE cell[1] = "datetime" -> Iso(cell[2])
      [] cell[1] = "nan" -> None
      [] OTHER -> cell

JsonRecord(r) ==
    [r EXCEPT !.Incident_ID = JsonCell(@), !.Reported_Year = JsonCell(@),
              !.Region = JsonCell(@), !.Country = JsonCell(@),
              !.Migration_Route = JsonCell(@), !.Number_Dead = JsonCell(@),
              !.Minimum_Missing = JsonCell(@),
              !.Total_Dead_and_Missing = JsonCell(@),
              !.Reported_Date = JsonCell(@),
              !.Latitude = JsonCell(@), !.Longitude = JsonCell(@)]

Json(records) == [i \in DOMAIN records |-> JsonRecord(records[i])]

\* The arguments update_store passes on: `x or "All"` for each of the five.
Normalised(s) ==
    [year |-> OrAll(s.year), region |-> OrAll(s.region), country |-> OrAll(s.country),
     cod |-> OrAll(s.cod), route |-> OrAll(s.route)]

(***************************************************************************)
(* Section B of each script: the dropdown option lists, built once at      *)
(* import.  A list is a sequence of option values; the order sorted()      *)
(* gives the values after "All" is not modelled.                           *)
(***************************************************************************)
\* The distinct values of a column that are not missing.
Keys(d, col) == {d[i][col] : i \in {j \in DOMAIN d : ~IsNull(d[j][col])}}

AnyMissing(df, col) == \E i \in DOMAIN df : IsNull(df[i][col])

\* series.unique(): the distinct values, one missing value among them when
\* the column has missing cells.
Unique(df, col) == Keys(df, col) \cup (IF AnyMissing(df, col) THEN {NaN} ELSE {})

\* A list of the members of S, each once.
RECURSIVE Listed(_)
Listed(S) ==
    IF S = {} THEN <<>>
    ELSE LET x == CHOOSE y \in S : TRUE IN <<x>> \o Listed(S \ {x})

Names(cols) == [i \in DOMAIN cols |-> StrV(cols[i])]

\* app.py: col_options_Region, _Year, _COD, _Country, _Route.
AppOptions(cols, df, dim) ==
    IF dim = "COD" THEN <<All>> \o Names(COD_COLUMNS(cols))
    ELSE IF Has(cols, dim) THEN <<All>> \o Listed(Keys(df, dim))
    ELSE <<All>>

\* app_advanced.py: build_dropdown_options(series)
build_dropdown_options(df, col) == <<All>> \o Listed(Keys(df, col))

\* Missing_Migrants_061121.py: the lists are built from unique() without
\* dropna(); the cause list is the column names MM.columns[20:-7].
LegacyOptions(cols, df, dim) ==
    IF dim = "COD" THEN <<All>> \o Names(SubSeq(cols, 21, Len(cols) - 7))
    ELSE <<All>> \o Listed(Unique(df, dim))

\* sorted(..., key=itemgetter('label')) of the Region, Country and route
\* lists raises TypeError when it compares a missing label with a string.
LegacySortRaises(df) ==
    \E col \in {"Region", "Country", "Migration_Route"} :
        AnyMissing(df, col) /\ Keys(df, col) # {}

Dropdowns(p) ==
    IF p = "app_advanced" THEN {"Reported_Year", "Region", "Migration_Route"}
    ELSE {"Reported_Year", "Region", "Country", "Migration_Route", "COD"}

col_options(p, cols, df, dim) ==
    CASE p = "app" -> AppOptions(cols, df, dim)
      [] p = "app_advanced" -> build_dropdown_options(df, dim)
      [] OTHER -> LegacyOptions(cols, df, dim)

\* Whether the import of the script runs to its end.  app.py guards every
\* column access; app_advanced.py reads MM["Reported_Year"] (made from Date
\* by load_data when absent), MM["Region"] and MM["Migration_Route"]; the
\* legacy script reads four columns and sorts three of the lists.
Starts(p, cols, src) ==
    CASE p = "app" -> TRUE
      [] p = "app_advanced" ->
            /\ Has(cols, "Reported_Year") \/ Has(cols, "Date")
            /\ Has(cols, "Region")
            /\ Has(cols, "Migration_Route")
      [] OTHER ->
            /\ \A c \in {"Reported_Year", "Region", "Country", "Migration_Route"} :
                  Has(cols, c)
            /\ ~LegacySortRaises(src)

(***************************************************************************)
(* The state after start-up.                                               *)
(***************************************************************************)
\* The dropdowns as laid out: each shows "All".
Untouched == [year |-> All, region |-> All, country |-> All, cod |-> All, route |-> All]

NoCall == [cb |-> "", args |-> <<>>, exc |-> "", out |-> <<>>]

Init ==
    /\ prog \in {"app", "app_advanced", "legacy"}
    /\ columns \in IF prog = "app" THEN {StandardColumns, ShortColumns}
                   ELSE {StandardColumns}
    /\ source \in Files
    /\ Starts(prog, columns, source)
    /\ MM = Load(prog, columns, source)
    /\ cache = <<>>
    /\ data = <<>>
    /\ sel = Untouched
    /\ ret = NoCall
    /\ issued = 0

(***************************************************************************)
(* app.py, section E: callbacks.                                           *)
(***************************************************************************)
\* E.1 update_store, handed selection s.  An exception leaves the Store as
\* it was (Dash reports a callback error).
StoreCall(s) ==
    \E call \in {CachedCall(columns, MM, cache, Normalised(s))} :
        \E out \in {IF call[1].exc = "" THEN Json(call[1].val) ELSE <<>>} :
            /\ cache' = call[2]
            /\ data' = IF call[1].exc = "" THEN out ELSE data
            /\ ret' = [cb |-> "update_store", args |-> s, exc |-> call[1].exc,
                       out |-> out]
            /\ sel' = s
            /\ UNCHANGED <<prog, columns, source, MM>>

\* In Spec the user sets the dropdowns once, before the first callback runs,
\* and the same values are handed over from then on; SpecCache follows a
\* process through many selections.
Handed == IF ret.cb = "" THEN Selections ELSE {sel}

update_store ==
    /\ prog = "app"
    /\ \E s \in Handed : StoreCall(s)
    /\ UNCHANGED issued

\* Frame of a callback that only answers: nothing of the process changes.
Answer(name, args, out) ==
    /\ ret' = [cb |-> name, args |-> args, exc |-> "", out |-> out]
    /\ UNCHANGED <<prog, columns, source, MM, cache, data, sel, issued>>

RECURSIVE SumSeq(_)
SumSeq(s) == IF s = <<>> THEN 0 ELSE s[1] + SumSeq(Tail(s))

\* The sum of the values of a function over the set S of arguments.
RECURSIVE SumOver(_, _)
SumOver(f, S) ==
    IF S = {} THEN 0
    ELSE LET k == CHOOSE x \in S : TRUE IN f[k] + SumOver(f, S \ {k})

\* pd.DataFrame(data)[col].sum() over a column of numbers.
ColumnSum(d, col) == SumSeq([i \in DOMAIN d |-> d[i][col][2]])

\* df["Incident_ID"].nunique(): the distinct values, missing ones left out.
NUnique(d, col) == Cardinality({d[i][col] : i \in {j \in DOMAIN d : ~IsNull(d[j][col])}})

\* E.2 update_summary(data): the text, with the two numbers it states.
SummaryOf(cols, d) ==
    IF d = <<>> THEN [text |-> "No incidents found", incidents |-> 0, dead_and_missing |-> 0]
    ELSE IF ~Has(cols, "Total_Dead_and_Missing")
    THEN [text |-> "No content.", incidents |-> 0, dead_and_missing |-> 0]
    ELSE [text |-> "There are",
          incidents |-> IF Has(cols, "Incident_ID") THEN NUnique(d, "Incident_ID")
                        ELSE Len(d),
          dead_and_missing |-> ColumnSum(d, "Total_Dead_and_Missing")]

update_summary ==
    /\ prog = "app"
    /\ Answer("update_summary", data, SummaryOf(columns, data))

\* A pie of the deaths alone: what C10 rules out.
RegionPieOfDead(cols, d) ==
    IF d = <<>> \/ ~(Has(cols, "Region") /\ Has(cols, "Total_Dead_and_Missing"))
    THEN [empty |-> TRUE, names |-> <<>>, values |-> <<>>]
    ELSE [empty |-> FALSE,
          names |-> [i \in DOMAIN d |-> d[i].Region],
          values |-> [i \in DOMAIN d |-> d[i].Number_Dead[2]]]

\* E.7 update_region_pie(data): px.pie(df, values="Total_Dead_and_Missing",
\* names="Region") is handed one label and one value per record.
RegionPieOf(cols, d) ==
    IF d = <<>> \/ ~(Has(cols, "Region") /\ Has(cols, "Total_Dead_and_Missing"))
    THEN [empty |-> TRUE, names |-> <<>>, values |-> <<>>]
    ELSE [empty |-> FALSE,
          names |-> [i \in DOMAIN d |-> d[i].Region],
          values |-> [i \in DOMAIN d |-> d[i].Total_Dead_and_Missing[2]]]

update_region_pie ==
    /\ prog = "app"
    /\ Answer("update_region_pie", data, RegionPieOf(columns, data))

\* df.groupby(key).sum() of one column: a sum per distinct key, records
\* whose key is missing left out (dropna=True).
GroupSum(d, key, col) ==
    LET keys == {d[i][key] : i \in {j \in DOMAIN d : ~IsNull(d[j][key])}}
    IN  [k \in keys |->
            SumSeq([n \in DOMAIN SelectSeq(d, LAMBDA r : r[key] = k) |->
                        SelectSeq(d, LAMBDA r : r[key] = k)[n][col][2]])]

\* E.8 update_country_treemap(data)
CountryTreemapOf(cols, d) ==
    IF d = <<>> \/ ~(Has(cols, "Country") /\ Has(cols, "Total_Dead_and_Missing"))
    THEN [empty |-> TRUE, groups |-> <<>>]
    ELSE [empty |-> FALSE, groups |-> GroupSum(d, "Country", "Total_Dead_and_Missing")]

update_country_treemap ==
    /\ prog = "app"
    /\ Answer("update_country_treemap", data, CountryTreemapOf(columns, data))

(***************************************************************************)
(* app_advanced.py                                                         *)
(***************************************************************************)
\* filtered[col] == value on a column as read: equal cells only, a missing
\* cell equals nothing.
RawEq(cell, v) == ~IsNull(cell) /\ cell = v

\* apply_filters(df, year, region, route): three filters, one after the other.
apply_filters(df, year, region, route) ==
    LET f0 == df
        f1 == IF year # All
              THEN SelectSeq(f0, LAMBDA r : RawEq(r.Reported_Year, year)) ELSE f0
        f2 == IF region # All
              THEN SelectSeq(f1, LAMBDA r : RawEq(r.Region, region)) ELSE f1
        f3 == IF route # All
              THEN SelectSeq(f2, LAMBDA r : RawEq(r.Migration_Route, route)) ELSE f2
    IN  f3

\* app_advanced.py has three dropdowns: year, region and route.
AdvancedSelections == {s \in Selections : s.country = All /\ s.cod = All}

HandedAdvanced == IF ret.cb = "" THEN AdvancedSelections ELSE {sel}

\* filter_and_store(year, region, route), handed selection s.
AdvancedStoreCall(s) ==
    \E out \in {Json(apply_filters(MM, s.year, s.region, s.route))} :
        /\ data' = out
        /\ sel' = s
        /\ ret' = [cb |-> "filter_and_store", args |-> s, exc |-> "", out |-> out]
        /\ UNCHANGED <<prog, columns, source, MM, cache, issued>>

filter_and_store ==
    /\ prog = "app_advanced"
    /\ \E s \in HandedAdvanced : AdvancedStoreCall(s)

\* update_summary(data) of app_advanced.py
AdvancedSummaryOf(cols, d) ==
    IF d = <<>> THEN [text |-> "No data matches", incidents |-> 0, dead_and_missing |-> 0]
    ELSE IF ~Has(cols, "Total_Dead_and_Missing")
    THEN [text |-> "Error loading summary", incidents |-> 0, dead_and_missing |-> 0]
    ELSE [text |-> "incidents", incidents |-> Len(d),
          dead_and_missing |-> ColumnSum(d, "Total_Dead_and_Missing")]

advanced_update_summary ==
    /\ prog = "app_advanced"
    /\ Answer("advanced_update_summary", data, AdvancedSummaryOf(columns, data))

(***************************************************************************)
(* Missing_Migrants_061121.py                                              *)
(***************************************************************************)
\* The dropdowns of the legacy app hand a value of their option lists, or
\* any other well-typed value: "All" or an integer year, "All" or a string.
LegacySelections == {s \in Selections : s.year = All \/ IsInt(s.year)}

HandedLegacy == IF ret.cb = "" THEN LegacySelections ELSE {sel}

\* MM.query("col == @value")
Query(df, col, v) == SelectSeq(df, LAMBDA r : RawEq(r[col], v))

\* The four query steps every legacy callback starts with: MM_Route.
LegacyRoute(df, s) ==
    LET MM_Year == IF s.year # All THEN Query(df, "Reported_Year", s.year) ELSE df
        MM_Region == IF s.region # All THEN Query(MM_Year, "Region", s.region)
                     ELSE MM_Year
        MM_Country == IF s.country # All THEN Query(MM_Region, "Country", s.country)
                      ELSE MM_Region
        MM_Route == IF s.route # All
                    THEN Query(MM_Country, "Migration_Route", s.route) ELSE MM_Country
    IN  MM_Route

\* MM_Route.loc[MM_Route[COD] == 1]: KeyError when COD names no column.
LegacyCod(cols, route, s) ==
    IF s.cod = All THEN [exc |-> "", val |-> route]
    ELSE IF ~Has(cols, s.cod[2]) THEN [exc |-> "KeyError", val |-> <<>>]
    ELSE [exc |-> "", val |-> SelectSeq(route, LAMBDA r : Flag(r, s.cod[2]) = 1)]

\* The store callback `filter`: it computes MM_COD and returns MM_Route.
LegacyStoreCall(s) ==
    \E res \in {LegacyCod(columns, LegacyRoute(MM, s), s)} :
        \E out \in {IF res.exc = "" THEN Json(LegacyRoute(MM, s)) ELSE <<>>} :
            /\ data' = IF res.exc = "" THEN out ELSE data
            /\ sel' = s
            /\ ret' = [cb |-> "legacy_filter", args |-> s, exc |-> res.exc,
                       out |-> out]
            /\ UNCHANGED <<prog, columns, source, MM, cache, issued>>

legacy_filter ==
    /\ prog = "legacy"
    /\ \E s \in HandedLegacy : LegacyStoreCall(s)

\* The text1 callback: MM_summary["Web_ID"].count() counts the cells that
\* are not missing; an empty Store has no such column, hence "No content".
LegacySummaryOf(d) ==
    IF d = <<>> THEN [text |-> "No content", incidents |-> 0, dead_and_missing |-> 0]
    ELSE [text |-> "There are",
          incidents |-> Cardinality({i \in DOMAIN d : ~IsNull(d[i].Incident_ID)}),
          dead_and_missing |-> ColumnSum(d, "Total_Dead_and_Missing")]

legacy_text1 ==
    /\ prog = "legacy"
    /\ Answer("legacy_text1", data, LegacySummaryOf(data))

\* Whether the frame a legacy callback ends with is the module-level MM
\* itself: every branch taken was `MM_x = MM_y`.
AliasesMM(s) ==
    s.year = All /\ s.region = All /\ s.country = All /\ s.route = All /\ s.cod = All

\* The fig3 callback (dead and missing per month).  It assigns to
\* MM_COD["Reported_Date"]; MM_COD is MM itself when all five are "All", and
\* a new frame otherwise.  Any exception yields the empty bar chart.
legacy_fig3 ==
    /\ prog = "legacy"
    /\ \E s \in HandedLegacy :
        \E res \in {LegacyCod(columns, LegacyRoute(MM, s), s)} :
            LET raised == res.exc # "" \/ ToDatetimeRaises(res.val)
            IN  /\ MM' = IF ~raised /\ AliasesMM(s)
                         THEN [i \in DOMAIN MM |->
                                 [MM[i] EXCEPT !.Reported_Date = ToDatetimeCoerce(@)]]
                         ELSE MM
                /\ sel' = s
                /\ ret' = [cb |-> "legacy_fig3", args |-> s, exc |-> "",
                           out |-> [empty |-> raised]]
                /\ UNCHANGED <<prog, columns, source, cache, data, issued>>

Next ==
    \/ update_store
    \/ update_summary
    \/ update_region_pie
    \/ update_country_treemap
    \/ filter_and_store
    \/ advanced_update_summary
    \/ legacy_filter
    \/ legacy_text1
    \/ legacy_fig3

Spec == Init /\ [][Next]_vars

(***************************************************************************)
(* Properties.                                                             *)
(***************************************************************************)
\* The five values _filter_mm_data_cached received in the last update_store.
Received == Normalised(ret.args)

Filtered == ret.cb = "update_store" /\ ret.exc = ""

\* Row r matches every field of selection k that is not "All".
RowMatches(r, k) ==
    /\ k.year # All => r.Reported_Year = IntV(PyInt(k.year).val)
    /\ k.region # All => r.Region = k.region
    /\ k.country # All => r.Country = k.country
    /\ k.route # All => r.Migration_Route = k.route
    /\ k.cod # All => k.cod[2] \in r.cod

InSubset(r, subset) == \E k \in DOMAIN subset : subset[k] = JsonRecord(r)

\* C1: a record of the store is in the subset _filter_mm_data_cached returns
\* if and only if it matches every field of the selection that is not "All"
\* (year, region, country and route equal, the selected cause's flag 1).
C1_InSubsetIffMatches ==
    Filtered => \A i \in DOMAIN MM :
                    InSubset(MM[i], ret.out) <=> RowMatches(MM[i], Received)

\* C3: a cause-of-death selection that is not "All" and is not one of the
\* store's cause-of-death categories yields the empty subset.
C3_UnknownCodMatchesNothing ==
    (Filtered /\ Received.cod # All /\ ~KnownCod(columns, Received.cod))
        => ret.out = <<>>

\* A value of the dimension that is not "All" and occurs in no record.
Occurs(col, v) == \E i \in DOMAIN MM : MM[i][col] = v

YearAsNumber(v) == IF PyInt(v).exc = "" THEN IntV(PyInt(v).val) ELSE v

AbsentValue(s) ==
    \/ s.year \notin {All, None} /\ ~Occurs("Reported_Year", YearAsNumber(s.year))
    \/ s.region \notin {All, None} /\ ~Occurs("Region", s.region)
    \/ s.country \notin {All, None} /\ ~Occurs("Country", s.country)
    \/ s.route \notin {All, None} /\ ~Occurs("Migration_Route", s.route)

\* C4: a year, region, country or route handed to update_store that is not
\* "All" and occurs in no record yields an empty stored subset and no error.
C4_AbsentValueGivesEmpty ==
    (ret.cb = "update_store" /\ AbsentValue(ret.args))
        => (ret.exc = "" /\ ret.out = <<>> /\ data = <<>>)

\* C5: the filter operation never raises across the callback boundary, for
\* any five selection values.
C5_FilterNeverRaises ==
    ret.cb \in {"update_store", "filter_and_store"} => ret.exc = ""

\* C6: after any sequence of callbacks the module-level store MM is what it
\* was right after load, the type of its Reported_Date cells included.
C6_StoreUnchanged == MM = Load(prog, columns, source)

\* C2: the summary's incident count is the number of records of the filtered
\* subset and its total the sum of Total_Dead_and_Missing over them; with
\* every field "All" these are the size and the sum of the whole store.
C2_SummaryCountsRecords ==
    ret.cb \in {"update_summary", "advanced_update_summary", "legacy_text1"}
        => /\ ret.out.incidents = Len(data)
           /\ ret.out.dead_and_missing = ColumnSum(data, "Total_Dead_and_Missing")

\* C9: in every record of the loaded store Total_Dead_and_Missing is
\* Number_Dead + Minimum_Missing, whatever the file held.
C9_TotalIsDeadPlusMissing ==
    prog \in {"app", "app_advanced"}
        => \A i \in DOMAIN MM :
              MM[i].Total_Dead_and_Missing =
                  IntV(MM[i].Number_Dead[2] + MM[i].Minimum_Missing[2])

StoreCallbacks == {"update_store", "filter_and_store", "legacy_filter"}

\* sub is full with some positions struck out: an increasing choice of
\* positions of full spells sub, so no position is used twice.
IsSubsequence(sub, full) ==
    \E idx \in [DOMAIN sub -> DOMAIN full] :
        /\ \A j, k \in DOMAIN sub : j < k => idx[j] < idx[k]
        /\ \A k \in DOMAIN sub : sub[k] = full[idx[k]]

\* C8: the filtered subset is a subsequence of the store: its records come
\* in the store's relative order and none of them appears twice.
C8_SubsetIsSubsequence ==
    (ret.cb \in StoreCallbacks /\ ret.exc = "")
        => IsSubsequence(ret.out, Json(MM))

\* A filtering callback has returned two different records of the store.
C8_Witness ==
    /\ ret.cb \in StoreCallbacks
    /\ ret.exc = ""
    /\ Len(ret.out) >= 2
    /\ ret.out[1] # ret.out[2]
    /\ Len(ret.out) = Len(MM)

NoneMissing(d, col) == \A i \in DOMAIN d : ~IsNull(d[i][col])

\* C10: for every selection, when every record has a region the values of the
\* by-region aggregate sum to the summary's total dead and missing for the
\* same selection; likewise the by-country aggregate when every record has a
\* country.
C10_AggregatesSumToTotal ==
    /\ (ret.cb = "update_region_pie" /\ NoneMissing(data, "Region"))
          => SumSeq(ret.out.values) = SummaryOf(columns, data).dead_and_missing
    /\ (ret.cb = "update_country_treemap" /\ NoneMissing(data, "Country"))
          => SumOver(ret.out.groups, DOMAIN ret.out.groups)
                 = SummaryOf(columns, data).dead_and_missing

\* The by-region view has drawn records of two regions, none without region.
C10_Witness ==
    /\ ret.cb = "update_region_pie"
    /\ ~ret.out.empty
    /\ NoneMissing(data, "Region")
    /\ \E i, j \in DOMAIN ret.out.names : ret.out.names[i] # ret.out.names[j]
    /\ SumSeq(ret.out.values) > 0

(***************************************************************************)
(* SpecCache: one app.py process asked selection after selection, more     *)
(* of them than the cache holds, and now and then asked an earlier one     *)
(* again.                                                                  *)
(***************************************************************************)
\* A store of two records that differ in every filterable dimension.
CacheFiles ==
    {<<BaseRow, r>> : r \in {a \in AggRows : a.Migration_Route # BaseRow.Migration_Route}}

InitCache ==
    /\ prog = "app"
    /\ columns = StandardColumns
    /\ source \in CacheFiles
    /\ MM = Load(prog, columns, source)
    /\ cache = <<>>
    /\ data = <<>>
    /\ sel = Untouched
    /\ ret = NoCall
    /\ issued = 0

\* Selection number n of the walk through the dropdowns: the choices of
\* each dropdown in turn, the year dropdown slowest.
Sweep(n) ==
    [region |-> RegionChoices[(n % 3) + 1],
     country |-> CountryChoices[((n \div 3) % 3) + 1],
     route |-> RouteChoices[((n \div 9) % 3) + 1],
     cod |-> CodChoices[((n \div 27) % 3) + 1],
     year |-> YearChoices[((n \div 81) % 7) + 1]]

\* The user moves on to the next selection.
query_next ==
    /\ prog = "app"
    /\ issued < MaxSweep
    /\ StoreCall(Sweep(issued))
    /\ issued' = issued + 1

\* Selections asked before: the first one, as it was or with the year
\* cleared or mistyped.
Revisited ==
    {Sweep(0), [Sweep(0) EXCEPT !.year = None],
     [Sweep(0) EXCEPT !.year = StrV("abc")]}

\* The user goes back to a selection asked before.
query_again ==
    /\ prog = "app"
    /\ issued > 0
    /\ \E s \in Revisited : StoreCall(s)
    /\ UNCHANGED issued

NextCache == query_next \/ query_again

SpecCache == InitCache /\ [][NextCache]_vars

\* The selection a cache key stands for.
KeySel(key) ==
    [year |-> key[1], region |-> key[2], country |-> key[3], cod |-> key[4],
     route |-> key[5]]

\* C7: the cache is a pure memoization keyed on the five selection values:
\* after any sequence of queries, evictions included, what update_store
\* returns for a selection is what filtering the store afresh with that
\* selection gives, so that two queries with one selection return the same.
C7_CacheIsPureMemoization ==
    /\ ret.cb = "update_store" =>
          LET fresh == FilterMM(columns, MM, Received)
          IN  /\ ret.exc = fresh.exc
              /\ ret.out = Json(fresh.val)
    /\ \A i \in DOMAIN cache :
          cache[i].value = FilterMM(columns, MM, KeySel(cache[i].key)).val
    /\ Len(cache) <= maxsize

\* More selections than the cache holds have been asked, the second one has
\* been evicted, and the first one has just been asked again.
C7_Witness ==
    /\ issued > maxsize
    /\ Len(cache) = maxsize
    /\ ret.cb = "update_store"
    /\ ret.args = Sweep(0)
    /\ ret.out = Json(MM)
    /\ \A i \in DOMAIN cache : cache[i].key # CacheKey(Normalised(Sweep(1)))

(***************************************************************************)
(* The other views of app.py.  A view's answer is [exc, out]: app.py's     *)
(* views have no try/except, so what a view raises leaves the callback.    *)
(***************************************************************************)
Respond(name, args, res) ==
    /\ ret' = [cb |-> name, args |-> args, exc |-> res.exc, out |-> res.out]
    /\ UNCHANGED <<prog, columns, source, MM, cache, data, sel, issued>>

Drawn(out) == [exc |-> "", out |-> out]

Raised(e) == [exc |-> e, out |-> [empty |-> TRUE]]

EmptyFigure == [empty |-> TRUE]

\* The sum of a numeric column over the records whose key column is k.
SumWhere(d, key, k, col) ==
    ColumnSum(SelectSeq(d, LAMBDA r : r[key] = k), col)

\* The numbers of S from the largest to the smallest: what C22 rules out.
RECURSIVE Descending(_)
Descending(S) ==
    IF S = {} THEN <<>>
    ELSE LET top == CHOOSE x \in S : \A y \in S : y[2] <= x[2]
         IN  <<top>> \o Descending(S \ {top})

\* sort_values("Reported_Year"): the numbers of S from the smallest up.
RECURSIVE Ascending(_)
Ascending(S) ==
    IF S = {} THEN <<>>
    ELSE LET low == CHOOSE x \in S : \A y \in S : x[2] <= y[2]
         IN  <<low>> \o Ascending(S \ {low})

\* E.4 update_yearly_chart(data): groupby("Reported_Year") of the two count
\* columns; records without a year belong to no group.  years is the x axis
\* in the order of the grouped frame.
YearlyChartOf(cols, d) ==
    IF d = <<>> \/ ~Has(cols, "Reported_Year") THEN Drawn(EmptyFigure)
    ELSE IF ~(Has(cols, "Number_Dead") /\ Has(cols, "Minimum_Missing"))
    THEN Raised("KeyError")
    ELSE Drawn([empty |-> FALSE,
                years |-> Ascending(Keys(d, "Reported_Year")),
                bars |-> [y \in Keys(d, "Reported_Year") |->
                            [dead |-> SumWhere(d, "Reported_Year", y, "Number_Dead"),
                             missing |-> SumWhere(d, "Reported_Year", y,
                                                  "Minimum_Missing")]]])

update_yearly_chart ==
    /\ prog = "app"
    /\ Respond("update_yearly_chart", data, YearlyChartOf(columns, data))

\* update_cod_bar's needed_cols: six names, written out in the callback.
needed_cols ==
    <<"Other Accidents", "Drowning", "Lack of Shelter, Food, or Water",
      "Mixed or unknown", "Sickness", "Transportation Accident">>

\* Every record counted for every category: what C13 rules out.
FlagSumOfAll(d, c) == Len(d)

\* df[c].sum() of a flag column.
FlagSum(d, c) == SumOver([i \in DOMAIN d |-> Flag(d[i], c)], DOMAIN d)

\* E.6 update_cod_bar(data): one bar per needed column the frame has.
CodBarOf(cols, d) ==
    LET existing_cols == {c \in Range(needed_cols) : Has(cols, c)}
    IN  IF d = <<>> \/ existing_cols = {} THEN Drawn(EmptyFigure)
        ELSE Drawn([empty |-> FALSE,
                    counts |-> [c \in existing_cols |-> FlagSum(d, c)]])

update_cod_bar ==
    /\ prog = "app"
    /\ Respond("update_cod_bar", data, CodBarOf(columns, data))

\* E.3 update_map(data): px.scatter_mapbox is handed every record of the
\* frame; hover_data names Total_Dead_and_Missing unconditionally.
MapOf(cols, d) ==
    IF d = <<>> \/ ~(Has(cols, "Latitude") /\ Has(cols, "Longitude"))
    THEN Drawn(EmptyFigure)
    ELSE IF ~Has(cols, "Total_Dead_and_Missing") THEN Raised("ValueError")
    ELSE Drawn([empty |-> FALSE,
                points |-> [i \in DOMAIN d |-> <<d[i].Latitude, d[i].Longitude>>]])

update_map ==
    /\ prog = "app"
    /\ Respond("update_map", data, MapOf(columns, data))

\* The months of the modelled dates, in calendar order: resample("M") makes
\* one bin for every month from the first date to the last.
Calendar ==
    <<"2020-01", "2020-02", "2020-03", "2020-04", "2020-05", "2020-06",
      "2020-07", "2020-08", "2020-09", "2020-10", "2020-11", "2020-12",
      "2021-01", "2021-02", "2021-03">>

MonthOf(cell) ==
    CHOOSE m \in DOMAIN Calendar :
        Calendar[m] = (IF cell[2] = "2020-01-15" THEN "2020-01" ELSE "2021-03")

\* The frame after pd.to_datetime(errors="coerce") of the Store's dates.
Dated(d) == SelectSeq(d, LAMBDA r : ~IsNull(ToDatetimeCoerce(r.Reported_Date)))

MonthsOf(d) == {MonthOf(Dated(d)[i].Reported_Date) : i \in DOMAIN Dated(d)}

\* The bins of resample("M"): empty when no record has a date.
Bins(d) ==
    IF MonthsOf(d) = {} THEN {}
    ELSE {m \in DOMAIN Calendar :
            /\ \E k \in MonthsOf(d) : k <= m
            /\ \E k \in MonthsOf(d) : m <= k}

\* The bins in the order of the resampled index, the earliest month first.
BinSeq(d) ==
    IF Bins(d) = {} THEN <<>>
    ELSE LET first == CHOOSE m \in Bins(d) : \A k \in Bins(d) : m <= k
         IN  [k \in 1..Cardinality(Bins(d)) |-> first + k - 1]

\* Every dated record summed into every month: what C23 rules out.
MonthSumOfAll(d, m, col) == ColumnSum(Dated(d), col)

MonthSum(d, m, col) ==
    ColumnSum(SelectSeq(Dated(d), LAMBDA r : MonthOf(r.Reported_Date) = m), col)

\* E.5 update_monthly_chart(data)
MonthlyChartOf(cols, d) ==
    IF d = <<>> \/ ~Has(cols, "Reported_Date") THEN Drawn(EmptyFigure)
    ELSE IF ~(Has(cols, "Number_Dead") /\ Has(cols, "Minimum_Missing"))
    THEN Raised("KeyError")
    ELSE Drawn([empty |-> FALSE,
                months |-> BinSeq(d),
                bars |-> [m \in Bins(d) |->
                            [dead |-> MonthSum(d, m, "Number_Dead"),
                             missing |-> MonthSum(d, m, "Minimum_Missing")]]])

\* resample("M") over an index in which every date is missing either gives
\* no bin or raises ValueError, depending on the pandas release.
MonthlyChartOutcomes(cols, d) ==
    {MonthlyChartOf(cols, d)}
        \cup (IF d # <<>> /\ Has(cols, "Reported_Date") /\ Dated(d) = <<>>
              THEN {Raised("ValueError")} ELSE {})

update_monthly_chart ==
    /\ prog = "app"
    /\ \E res \in MonthlyChartOutcomes(columns, data) :
          Respond("update_monthly_chart", data, res)

\* The pies of sums of columns: df[cols].sum() of the columns the frame has.
ColumnPieOf(wanted, cols, d) ==
    LET present == {c \in wanted : Has(cols, c)}
    IN  IF d = <<>> \/ present = {} THEN Drawn(EmptyFigure)
        ELSE Drawn([empty |-> FALSE,
                    slices |-> [c \in present |-> ColumnSum(d, c)]])

\* E.9 update_sex_pie(data)
update_sex_pie ==
    /\ prog = "app"
    /\ Respond("update_sex_pie", data,
               ColumnPieOf({"Females", "Males", "Unknown_Sex"}, columns, data))

\* E.10 update_age_pie(data)
update_age_pie ==
    /\ prog = "app"
    /\ Respond("update_age_pie", data,
               ColumnPieOf({"Confirmed_Adults", "Children", "Unknown_Age_Status"},
                           columns, data))

\* The decomposition attempted on an empty Store too: what C15 rules out.
SeasonalOfUnguarded(cols, d) ==
    IF ~(Has(cols, "Reported_Date") /\ Has(cols, "Total_Dead_and_Missing"))
    THEN Drawn(EmptyFigure)
    ELSE IF Cardinality(Bins(d)) < 2 * 12 THEN Raised("ValueError")
    ELSE Drawn([empty |-> FALSE,
                months |-> [m \in Bins(d) |-> MonthSum(d, m, "Total_Dead_and_Missing")]])

\* E.11 update_seasonal_decomposition(data): seasonal_decompose of a monthly
\* series raises ValueError unless the series holds two full years.
SeasonalOf(cols, d) ==
    IF d = <<>> \/ ~(Has(cols, "Reported_Date") /\ Has(cols, "Total_Dead_and_Missing"))
    THEN Drawn(EmptyFigure)
    ELSE IF Cardinality(Bins(d)) < 2 * 12 THEN Raised("ValueError")
    ELSE Drawn([empty |-> FALSE,
                months |-> [m \in Bins(d) |-> MonthSum(d, m, "Total_Dead_and_Missing")]])

update_seasonal_decomposition ==
    /\ prog = "app"
    /\ Respond("update_seasonal_decomposition", data, SeasonalOf(columns, data))

(***************************************************************************)
(* The charts of app_advanced.py.  Each body runs inside try/except, and   *)
(* the except branch returns the empty figure.                             *)
(***************************************************************************)
\* The columns px.scatter_geo is told to read in update_animated_map.
AnimatedMapColumns ==
    {"Latitude", "Longitude", "Log_Dead", "Total_Dead_and_Missing",
     "Location Description", "Reported_Date", "Migration_Route", "Reported_Year"}

\* update_animated_map(data): the records whose latitude and longitude are
\* both different from 0.
AnimatedMapOf(cols, d) ==
    LET kept == SelectSeq(d, LAMBDA r : r.Latitude # IntV(0) /\ r.Longitude # IntV(0))
    IN  IF d = <<>> THEN Drawn(EmptyFigure)
        ELSE IF ~(Has(cols, "Latitude") /\ Has(cols, "Longitude")) THEN Drawn(EmptyFigure)
        ELSE IF kept = <<>> THEN Drawn(EmptyFigure)
        ELSE IF ~(HasPrimaryCod(cols) /\ \A c \in AnimatedMapColumns : Has(cols, c))
        THEN Drawn(EmptyFigure)
        ELSE Drawn([empty |-> FALSE,
                    points |-> [i \in DOMAIN kept |->
                                  <<kept[i].Latitude, kept[i].Longitude>>]])

update_animated_map ==
    /\ prog = "app_advanced"
    /\ Respond("update_animated_map", data, AnimatedMapOf(columns, data))

\* update_bubble(data): the sum of Total_Dead_and_Missing and the count of
\* Incident_ID cells per (Region, Primary_COD), of which the groups with a
\* positive sum are drawn.  A record without a region is in no group.
BubbleOf(cols, d) ==
    LET grouped == {i \in DOMAIN d : ~IsNull(d[i].Region)}
        keys == {<<d[i].Region, d[i].Primary_COD>> : i \in grouped}
        members(k) == {i \in grouped : <<d[i].Region, d[i].Primary_COD>> = k}
        total(k) == SumOver([i \in DOMAIN d |-> d[i].Total_Dead_and_Missing[2]],
                            members(k))
        count(k) == Cardinality({i \in members(k) : ~IsNull(d[i].Incident_ID)})
    IN  IF d = <<>> THEN Drawn(EmptyFigure)
        ELSE IF ~(HasPrimaryCod(cols) /\ Has(cols, "Region")
                  /\ Has(cols, "Total_Dead_and_Missing") /\ Has(cols, "Incident_ID"))
        THEN Drawn(EmptyFigure)
        ELSE Drawn([empty |-> FALSE,
                    bubbles |-> [k \in {g \in keys : total(g) > 0} |->
                                    [total |-> total(k), incidents |-> count(k)]]])

update_bubble ==
    /\ prog = "app_advanced"
    /\ Respond("update_bubble", data, BubbleOf(columns, data))

\* The six further charts.
AdvancedCharts ==
    {"update_sankey", "update_stacked_area", "update_choropleth", "update_sunburst",
     "update_heatmap", "update_boxplot"}

\* Each returns go.Figure() for an empty Store; what it draws from records
\* is left open here: a figure, or the empty figure of its except branch.
update_chart ==
    /\ prog = "app_advanced"
    /\ \E name \in AdvancedCharts :
        \E drawn \in IF data = <<>> THEN {FALSE} ELSE BOOLEAN :
            Respond(name, data, Drawn([empty |-> ~drawn]))

(***************************************************************************)
(* SpecViews: app.py and app_advanced.py with every view callback, over    *)
(* stores that vary in coordinates, flags and identifiers, and over file   *)
(* layouts that lack a column.                                             *)
(***************************************************************************)
ViewRows ==
    { BaseRow,
      [BaseRow EXCEPT !.cod = {"Drowning", "Violence"},
                      !.Latitude = IntV(0), !.Longitude = IntV(0)],
      [BaseRow EXCEPT !.Incident_ID = IntV(2), !.Reported_Year = IntV(2021),
                      !.Region = StrV("Americas"), !.Country = StrV("Mexico"),
                      !.cod = {"Violence"}, !.Number_Dead = IntV(3),
                      !.Minimum_Missing = IntV(1),
                      !.Total_Dead_and_Missing = IntV(4),
                      !.Reported_Date = StrV("2021-03-02"),
                      !.Latitude = NaN, !.Longitude = IntV(-99)],
      [BaseRow EXCEPT !.Incident_ID = IntV(3), !.Reported_Year = NaN,
                      !.Reported_Date = StrV("unknown"), !.cod = {},
                      !.Region = NaN,
                      !.Number_Dead = IntV(2), !.Minimum_Missing = IntV(0)],
      [BaseRow EXCEPT !.Incident_ID = IntV(4), !.cod = {"Sickness"},
                      !.Number_Dead = IntV(0), !.Minimum_Missing = IntV(0),
                      !.Total_Dead_and_Missing = IntV(0)] }

\* The store of three records of the specification's worked scenario.
ScenarioFile ==
    << [BaseRow EXCEPT !.Number_Dead = IntV(5), !.Minimum_Missing = IntV(2),
                       !.Total_Dead_and_Missing = IntV(7)],
       [BaseRow EXCEPT !.Incident_ID = IntV(2), !.Country = StrV("Italy"),
                       !.Number_Dead = IntV(3), !.Minimum_Missing = IntV(0),
                       !.Total_Dead_and_Missing = IntV(3)],
       [BaseRow EXCEPT !.Incident_ID = IntV(3), !.Reported_Year = IntV(2021),
                       !.Region = StrV("Americas"), !.Country = StrV("Mexico"),
                       !.cod = {"Violence"}, !.Number_Dead = IntV(1),
                       !.Minimum_Missing = IntV(1),
                       !.Total_Dead_and_Missing = IntV(2),
                       !.Reported_Date = StrV("2021-03-02")] >>

ViewFiles == SeqsUpTo(ViewRows, MaxRows) \cup {ScenarioFile}

\* A file without the identifier column.
NoIdColumns == SelectSeq(StandardColumns, LAMBDA c : c # "Incident_ID")

ViewLayouts == {StandardColumns, NoIdColumns}

ViewSelections ==
    {s \in Selections :
        s.country = All /\ s.route = All /\ s.year \in {All, IntV(2020)}}

InitViews ==
    /\ prog \in {"app", "app_advanced"}
    /\ columns \in ViewLayouts
    /\ source \in ViewFiles
    /\ Starts(prog, columns, source)
    /\ MM = Load(prog, columns, source)
    /\ cache = <<>>
    /\ data = <<>>
    /\ sel = Untouched
    /\ ret = NoCall
    /\ issued = 0

HandedViews == IF ret.cb = "" THEN ViewSelections ELSE {sel}

view_update_store ==
    /\ prog = "app"
    /\ \E s \in HandedViews : StoreCall(s)
    /\ UNCHANGED issued

view_filter_and_store ==
    /\ prog = "app_advanced"
    /\ \E s \in {h \in HandedViews : h.cod = All} : AdvancedStoreCall(s)

NextViews ==
    \/ view_update_store
    \/ update_summary
    \/ update_map
    \/ update_yearly_chart
    \/ update_monthly_chart
    \/ update_cod_bar
    \/ update_region_pie
    \/ update_country_treemap
    \/ update_sex_pie
    \/ update_age_pie
    \/ update_seasonal_decomposition
    \/ view_filter_and_store
    \/ advanced_update_summary
    \/ update_animated_map
    \/ update_bubble
    \/ update_chart

SpecViews == InitViews /\ [][NextViews]_vars

(***************************************************************************)
(* Properties of the views.                                                *)
(***************************************************************************)
\* C11: for every selection and every cause-of-death category, the count of
\* the by-cause aggregate for the category is at most the incident count the
\* summary reports for the same selection.
C11_CauseCountAtMostIncidents ==
    (ret.cb = "update_cod_bar" /\ ~ret.out.empty)
        => \A c \in DOMAIN ret.out.counts :
              ret.out.counts[c] <= SummaryOf(columns, data).incidents

\* C12: the by-cause aggregate has one entry for each cause-of-death category
\* of the store (each value offered by the cause filter), equal to the number
\* of records of the filtered subset whose flag for the category is set.
C12_OneEntryPerCategory ==
    (ret.cb = "update_cod_bar" /\ data # <<>>)
        => /\ ~ret.out.empty
           /\ DOMAIN ret.out.counts = Range(COD_COLUMNS(columns))
           /\ \A c \in DOMAIN ret.out.counts :
                 ret.out.counts[c] =
                     Cardinality({i \in DOMAIN data : Flag(data[i], c) = 1})

EuropeOnly == [Untouched EXCEPT !.region = StrV("Europe")]

InScenario ==
    /\ prog = "app"
    /\ columns = StandardColumns
    /\ source = ScenarioFile
    /\ sel = EuropeOnly
    /\ ret.cb # ""

\* C13: on the three-record store, region "Europe" with the other four fields
\* "All" gives incident count 2, total dead and missing 10, the by-year
\* aggregate {2020: dead 8, missing 2} and the by-cause aggregate in which
\* Drowning counts 2 and no other category counts anything.
C13_WorkedScenario ==
    InScenario =>
        /\ Len(data) = 2
        /\ ret.cb = "update_summary" =>
              ret.out.incidents = 2 /\ ret.out.dead_and_missing = 10
        /\ ret.cb = "update_yearly_chart" =>
              /\ DOMAIN ret.out.bars = {IntV(2020)}
              /\ ret.out.bars[IntV(2020)] = [dead |-> 8, missing |-> 2]
        /\ ret.cb = "update_cod_bar" =>
              /\ ret.out.counts["Drowning"] = 2
              /\ \A c \in DOMAIN ret.out.counts \ {"Drowning"} : ret.out.counts[c] = 0

\* The by-cause view has answered in the scenario.
C13_Witness == InScenario /\ ret.cb = "update_cod_bar" /\ ~ret.out.empty

\* C14: for every selection, no record at (Latitude, Longitude) = (0, 0) is
\* among the points handed to a map view.
C14_NoSentinelOnMaps ==
    (ret.cb \in {"update_map", "update_animated_map"} /\ ~ret.out.empty)
        => \A k \in DOMAIN ret.out.points :
              ret.out.points[k] # <<IntV(0), IntV(0)>>

Summaries == {"update_summary", "advanced_update_summary"}

Figures ==
    {"update_map", "update_yearly_chart", "update_monthly_chart", "update_cod_bar",
     "update_region_pie", "update_country_treemap", "update_sex_pie",
     "update_age_pie", "update_seasonal_decomposition", "update_animated_map",
     "update_bubble"}
        \cup AdvancedCharts

\* C15: when the filtered subset is empty, every view callback returns its
\* empty form (an empty figure, or the summary text for no incidents) and
\* none raises.
C15_EmptySubsetEmptyViews ==
    data = <<>> =>
        /\ ret.cb \in Summaries =>
              /\ ret.exc = ""
              /\ ret.out.text \in {"No incidents found", "No data matches"}
        /\ ret.cb \in Figures => ret.exc = "" /\ ret.out.empty

\* A selection that matches nothing in a store that has records, and the
\* seasonal decomposition answering for it.
C15_Witness ==
    /\ MM # <<>>
    /\ sel.region = StrV("Atlantis")
    /\ data = <<>>
    /\ ret.cb = "update_seasonal_decomposition"
    /\ ret.out.empty

(***************************************************************************)
(* Properties of start-up.                                                 *)
(***************************************************************************)
\* The store as loaded.
Loaded == Load(prog, columns, source)

\* C16: for every filterable dimension the dropdown option list has "All" as
\* its first element, and the rest are exactly the distinct non-null values
\* of the dimension in the store, each once, so "All" occurs exactly once.
\* (The cause list is compared for app.py, whose categories are COD_COLUMNS;
\* the column layout of the legacy file is not part of the repository.)
C16_OptionsAreAllThenValues ==
    \A dim \in Dropdowns(prog) :
        LET o == col_options(prog, columns, Loaded, dim)
            values == IF dim = "COD" THEN Range(Names(COD_COLUMNS(columns)))
                      ELSE Keys(Loaded, dim)
        IN  (dim = "COD" => prog = "app") =>
                /\ o[1] = All
                /\ Range(Tail(o)) = values
                /\ Cardinality(Range(o)) = Len(o)

Parses(cell) == IsInt(cell) \/ (IsStr(cell) /\ IsNumeral(cell[2]))

IsDate(cell) == IsStr(cell) /\ cell[2] \in DateStrings

\* The count columns each script makes numeric at load.
CountColumns(p) ==
    IF p = "app" THEN {"Number_Dead", "Minimum_Missing"}
    ELSE {"Number_Dead", "Minimum_Missing", "Total_Dead_and_Missing"}

RequiredColumns ==
    {"Incident_ID", "Reported_Year", "Region", "Country", "Migration_Route",
     "Number_Dead", "Minimum_Missing", "Total_Dead_and_Missing"}

\* C18: when the source lacks a required column, load fails at start-up: the
\* application never serves a query over a store that lacks one.
C18_NoServingWithoutRequiredColumn ==
    ret.cb # "" => \A c \in RequiredColumns : Has(columns, c)

(***************************************************************************)
(* Properties relating the filters of the three scripts.                   *)
(***************************************************************************)
\* The subset MM_COD the legacy chart callbacks aggregate over: the four
\* queries, then the cause flag.
ChartSubset(cols, df, s) == LegacyCod(cols, LegacyRoute(df, s), s)

\* C19: for every selection, the subset the legacy store callback hands to
\* the summary text and the CSV download honours all five selections and is
\* the subset the chart callbacks aggregate over; with a cause other than
\* "All" it holds only records whose flag for that cause is 1.
C19_StoredSubsetHonoursCause ==
    (ret.cb = "legacy_filter" /\ ret.exc = "")
        => /\ ret.out = Json(ChartSubset(columns, MM, ret.args).val)
           /\ ret.args.cod # All =>
                 \A k \in DOMAIN data : Flag(data[k], ret.args.cod[2]) = 1

\* C20: for every store and every selection, the single mask of
\* _filter_mm_data_cached selects the same records, in the same order, as the
\* five sequential filters (year, region, country, route, cause) of the
\* legacy chart callbacks.
C20_MaskEqualsSequentialFilters ==
    Filtered =>
        /\ ChartSubset(columns, MM, Received).exc = ""
        /\ ret.out = Json(ChartSubset(columns, MM, Received).val)

(***************************************************************************)
(* Properties of the coordinate sentinel.                                  *)
(***************************************************************************)
\* Whether (lat, lon) is the pair (0, 0).
IsSentinel(lat, lon) == lat = IntV(0) /\ lon = IntV(0)

\* C21: only the pair (0, 0) stands for "no coordinates": a record of the
\* Store with exactly one coordinate equal to 0 is among the points of the
\* animated map.
C21_OnlyPairIsSentinel ==
    (ret.cb = "update_animated_map" /\ columns = StandardColumns) =>
        \A i \in DOMAIN data :
            ~IsSentinel(data[i].Latitude, data[i].Longitude) =>
                /\ ~ret.out.empty
                /\ \E k \in DOMAIN ret.out.points :
                      ret.out.points[k] = <<data[i].Latitude, data[i].Longitude>>

(***************************************************************************)
(* Properties of the aggregates over time.                                 *)
(***************************************************************************)
\* The indices of the Store's records whose column col holds v.
Holding(col, v) == {i \in DOMAIN data : data[i][col] = v}

\* The sum of a count column over the records at the indices in S.
SumAt(col, S) == SumOver([i \in DOMAIN data |-> data[i][col][2]], S)

\* C22: the by-year aggregate has one entry per year that occurs in the
\* filtered subset, in ascending year order, and each entry holds the sum of
\* Number_Dead and the sum of Minimum_Missing over the subset's records of
\* that year.
C22_YearlyAggregate ==
    (ret.cb = "update_yearly_chart" /\ data # <<>>) =>
        LET years == ret.out.years
        IN  /\ ret.exc = "" /\ ~ret.out.empty
            /\ Range(years) = {data[i].Reported_Year :
                                 i \in {j \in DOMAIN data : IsInt(data[j].Reported_Year)}}
            /\ \A i, j \in DOMAIN years : i < j => years[i][2] < years[j][2]
            /\ DOMAIN ret.out.bars = Range(years)
            /\ \A y \in Range(years) :
                  /\ ret.out.bars[y].dead = SumAt("Number_Dead", Holding("Reported_Year", y))
                  /\ ret.out.bars[y].missing =
                        SumAt("Minimum_Missing", Holding("Reported_Year", y))

\* A subset that lists a record of 2021 before one of 2020, and its chart.
C22_Witness ==
    /\ ret.cb = "update_yearly_chart"
    /\ ~ret.out.empty
    /\ Len(data) = 2
    /\ data[1].Reported_Year = IntV(2021)
    /\ data[2].Reported_Year = IntV(2020)
    /\ ret.out.years = <<IntV(2020), IntV(2021)>>

\* The indices of the Store's records that have a date, and of those of
\* calendar month m.
DatedRecords == {i \in DOMAIN data : data[i].Reported_Date[1] = "iso"}

InMonth(m) == {i \in DatedRecords : MonthOf(data[i].Reported_Date) = m}

\* C23: the by-month aggregate lists calendar months in chronological order;
\* a record without a date contributes to no month, every dated record
\* contributes to exactly its own month, and the sums over the months equal
\* the sums of Number_Dead and Minimum_Missing over the dated records.  The
\* aggregate is the one of a view that answered.
C23_MonthlyAggregate ==
    (ret.cb = "update_monthly_chart" /\ data # <<>> /\ ret.exc = "") =>
        LET months == ret.out.months
            bars == ret.out.bars
        IN  /\ ~ret.out.empty
            /\ \A i, j \in DOMAIN months : i < j => months[i] < months[j]
            /\ DOMAIN bars = Range(months)
            /\ \A i \in DatedRecords : MonthOf(data[i].Reported_Date) \in Range(months)
            /\ \A m \in Range(months) :
                  /\ bars[m].dead = SumAt("Number_Dead", InMonth(m))
                  /\ bars[m].missing = SumAt("Minimum_Missing", InMonth(m))
            /\ SumOver([m \in Range(months) |-> bars[m].dead], Range(months))
                  = SumAt("Number_Dead", DatedRecords)
            /\ SumOver([m \in Range(months) |-> bars[m].missing], Range(months))
                  = SumAt("Minimum_Missing", DatedRecords)

\* A subset that holds an undated record after a dated one, and its chart
\* of one month.
C23_Witness ==
    /\ ret.cb = "update_monthly_chart"
    /\ ~ret.out.empty
    /\ Len(data) = 2
    /\ DatedRecords = {1}
    /\ Len(ret.out.months) = 1

(***************************************************************************)
(* run_cleaner_refactored.py.  A frame is [cols, rows]: the column names   *)
(* in order, and one function from column name to cell per record.         *)
(***************************************************************************)
\* C: the names given to the 24 columns of the download.
RawColumns ==
    << "Incident_ID", "Incident_Type", "Region", "Reported_Date", "Reported_Year",
       "Reported_Month", "Number_Dead", "Minimum_Missing", "Total_Dead_and_Missing",
       "Survivors", "Females", "Males", "Children", "Country_of_Origin",
       "Region_of_Origin", "Cause_of_Death", "Country_of_Incident", "Migration_Route",
       "Location_Description", "Coordinates", "UNSD_Geographical_Grouping",
       "Information_Source", "URL", "Source_Quality" >>

\* v itself, its functions tabulated by the comparison so that they are
\* computed once and not at every application.
Tabulated(v) == IF v = v THEN v ELSE v

\* frame[c] = vals, a new column going to the end.
WithColumn(f, c, vals) ==
    LET g == Tabulated(f)
    IN  Tabulated(
          [cols |-> IF Has(g.cols, c) THEN g.cols ELSE Append(g.cols, c),
           rows |-> [i \in DOMAIN g.rows |->
                       [k \in DOMAIN g.rows[i] \cup {c} |->
                           IF k = c THEN vals[i] ELSE g.rows[i][k]]]])

\* frame[c] = Op(row), row by row.
Assign(f, c, Op(_)) == WithColumn(f, c, [i \in DOMAIN f.rows |-> Op(f.rows[i])])

\* .fillna(v)
FillNa(cell, v) == IF IsNull(cell) THEN v ELSE cell

\* D: the origin strings of the model, by what the four conditions find in
\* them: "unknown", a comma, "mixed" or "multiple", a listed country.
OriginFinds(s) ==
    CASE s = "Unknown" -> {"unknown"}
      [] s = "Syria,Iraq" -> {","}
      [] s = "Mixed" -> {"mixed"}
      [] s = "Kenya" -> {"infrequent"}
      [] OTHER -> {}

CleanOrigin(cell) ==
    LET s == FillNa(cell, StrV("Unknown"))[2]
    IN  CASE "unknown" \in OriginFinds(s) -> StrV("Unknown")
          [] "," \in OriginFinds(s) -> StrV("Multiple Countries")
          [] "mixed" \in OriginFinds(s) -> StrV("Multiple Countries")
          [] "infrequent" \in OriginFinds(s) -> StrV("Infrequent Countries")
          [] OTHER -> StrV(s)

StepD(f) == Assign(f, "Country_of_Origin", LAMBDA r : CleanOrigin(r["Country_of_Origin"]))

\* E: the cause strings of the model, by what str.contains finds in them:
\* 'lack of adequate shelter|harsh environmental', 'drowning',
\* 'mixed or unknown' (case-insensitive).
Shelter == "Harsh environmental conditions / lack of adequate shelter, food, water"
Sickness == "Sickness / lack of access to adequate healthcare"
Vehicle == "Vehicle accident / death linked to hazardous transport"

CauseFinds(s) ==
    CASE s = Shelter -> {"shelter"}
      [] s = "Drowning" -> {"drowning"}
      [] s = "Drowning,Violence" -> {"drowning"}
      [] s = "Mixed or unknown" -> {"mixed"}
      [] OTHER -> {}

CleanCause(cell) ==
    LET s == FillNa(cell, StrV("Unknown"))[2]
    IN  CASE "shelter" \in CauseFinds(s) -> StrV("Lack of Shelter, Food, or Water")
          [] "drowning" \in CauseFinds(s) -> StrV("Drowning")
          [] "mixed" \in CauseFinds(s) -> StrV("Mixed or unknown")
          [] OTHER -> StrV(s)

StepE(f) == Assign(f, "Cause_of_Death", LAMBDA r : CleanCause(r["Cause_of_Death"]))

\* F: fillna of the two labels and of the seven count columns.
numeric_cols ==
    <<"Number_Dead", "Minimum_Missing", "Total_Dead_and_Missing",
      "Survivors", "Females", "Males", "Children">>

StepF(f) ==
    Tabulated([f EXCEPT !.rows =
        [i \in DOMAIN f.rows |->
            [k \in DOMAIN f.rows[i] |->
                CASE k \in {"Migration_Route", "Region"} ->
                        FillNa(f.rows[i][k], StrV("Not Specified"))
                  [] k \in Range(numeric_cols) -> FillNa(f.rows[i][k], IntV(0))
                  [] OTHER -> f.rows[i][k]]]])

\* G: pd.get_dummies(MM, columns=['Cause_of_Death'], prefix='COD').  The
\* labels the cleaned column can hold, in sorted order, each with the name
\* of its indicator column.
CodNames ==
    << <<"Accidental death", "COD_Accidental death">>,
       <<"Drowning", "COD_Drowning">>,
       <<"Lack of Shelter, Food, or Water", "COD_Lack of Shelter, Food, or Water">>,
       <<"Mixed or unknown", "COD_Mixed or unknown">>,
       <<Sickness, "COD_Sickness / lack of access to adequate healthcare">>,
       <<"Unknown", "COD_Unknown">>,
       <<Vehicle, "COD_Vehicle accident / death linked to hazardous transport">>,
       <<"Violence", "COD_Violence">>,
       <<"Violence,Accidental death", "COD_Violence,Accidental death">> >>

\* The single causes a label lists between its commas.
Listing(label) ==
    IF label = "Violence,Accidental death" THEN {"Violence", "Accidental death"}
    ELSE {label}

\* An indicator per listed cause, as Series.str.get_dummies(sep=',') sets
\* them: what C29 rules out.
IndicatorPerListed(label, value) == IF label \in Listing(value) THEN IntV(1) ELSE IntV(0)

\* The indicator of label in a record whose cleaned cause is value.
Indicator(label, value) == IF label = value THEN IntV(1) ELSE IntV(0)

\* The labels that get a column: those for which some record has the
\* indicator set.
Dummies(f) ==
    SelectSeq(CodNames,
              LAMBDA p : \E i \in DOMAIN f.rows :
                            Indicator(p[1], f.rows[i]["Cause_of_Death"][2]) = IntV(1))

StepG(f) ==
    LET kept == SelectSeq(f.cols, LAMBDA c : c # "Cause_of_Death")
        new == Dummies(f)
        name(c) == CHOOSE p \in Range(new) : p[2] = c
    IN  Tabulated(
          [cols |-> kept \o [k \in DOMAIN new |-> new[k][2]],
           rows |-> [i \in DOMAIN f.rows |->
                       [c \in Range(kept) \cup {new[k][2] : k \in DOMAIN new} |->
                           IF c \in Range(kept) THEN f.rows[i][c]
                           ELSE Indicator(name(c)[1], f.rows[i]["Cause_of_Death"][2])]]])

\* H: the coordinate strings of the model, split at commas and blanks.
SplitCoordinates(s) ==
    CASE s = "35, 18" -> <<"35", "18">>
      [] s = "0, 18" -> <<"0", "18">>
      [] s = "35, 0" -> <<"35", "0">>
      [] s = "0, 0" -> <<"0", "0">>
      [] OTHER -> <<s>>

\* Column k of the expanded split: None where the string has fewer parts.
Part(cell, k) ==
    LET parts == SplitCoordinates(FillNa(cell, StrV("0, 0"))[2])
    IN  IF k <= Len(parts) THEN StrV(parts[k]) ELSE None

\* coords[1] exists when some record's string has two parts.
SplitRaises(f) ==
    ~\E i \in DOMAIN f.rows :
        Len(SplitCoordinates(FillNa(f.rows[i]["Coordinates"], StrV("0, 0"))[2])) >= 2

StepH(f) ==
    Assign(Assign(f, "Latitude", LAMBDA r : FillZero(ToNumeric(Part(r["Coordinates"], 1)))),
           "Longitude", LAMBDA r : FillZero(ToNumeric(Part(r["Coordinates"], 2))))

\* I: the total read as a number after its thousands separators are
\* removed, and the cube root of it times 3, a float the model keeps as
\* <<"3cbrt", total>>.
StripCommas(cell) == IF cell = StrV("1,000") THEN StrV("1000") ELSE cell

CubeRootTimes3(cell) == IF cell[2] < 0 THEN NaN ELSE <<"3cbrt", cell[2]>>

StepI(f) ==
    LET g == Assign(f, "Total_Dead_and_Missing",
                    LAMBDA r : FillZero(ToNumeric(StripCommas(r["Total_Dead_and_Missing"]))))
    IN  Assign(g, "Log_Dead", LAMBDA r : CubeRootTimes3(r["Total_Dead_and_Missing"]))

\* J: the first of the comma-separated URLs.
FirstUrl(cell) == IF cell = StrV("http://a,http://b") THEN StrV("http://a") ELSE cell

StepJ(f) ==
    LET g == Assign(f, "URL", LAMBDA r : FillNa(r["URL"], StrV("Not Given")))
    IN  Assign(g, "URL1", LAMBDA r : FirstUrl(r["URL"]))

\* K: the derived sex and age columns.
count_cols == <<"Total_Dead_and_Missing", "Females", "Males", "Children">>

\* The difference cut off at 0, as .clip(lower=0) would: what C24 rules out.
UnknownSexClipped(r) ==
    LET n == r["Total_Dead_and_Missing"][2] - r["Females"][2] - r["Males"][2]
    IN  IntV(IF n < 0 THEN 0 ELSE n)

Unknown_Sex(r) ==
    IntV(r["Total_Dead_and_Missing"][2] - r["Females"][2] - r["Males"][2])

Unknown_Age_Status(r) == IntV(r["Total_Dead_and_Missing"][2] - r["Children"][2])

Confirmed_Adults(r) ==
    IF r["Unknown_Age_Status"] # IntV(0)
    THEN IntV(r["Males"][2] + r["Females"][2] - r["Children"][2])
    ELSE IntV(0)

StepK(f) ==
    LET g == Tabulated([f EXCEPT !.rows =
                [i \in DOMAIN f.rows |->
                    [k \in DOMAIN f.rows[i] |->
                        IF k \in Range(count_cols)
                        THEN FillZero(ToNumeric(f.rows[i][k])) ELSE f.rows[i][k]]]])
    IN  Assign(Assign(Assign(g, "Unknown_Sex", Unknown_Sex),
                      "Unknown_Age_Status", Unknown_Age_Status),
               "Confirmed_Adults", Confirmed_Adults)

\* L: reverse geocoding.  A geocoder is "none" when reverse_geocoder is not
\* installed, else the country code it answers for the coordinates of the
\* model.
Geocoders == {"none", "GR", "NA"}

\* (MM['Latitude'] != 0) & (MM['Longitude'] != 0): a record with either
\* coordinate equal to 0 is not geocoded.
valid_mask(r) == r["Latitude"] # IntV(0) /\ r["Longitude"] # IntV(0)

\* rg.search(coords) indexes coords[0]: given no coordinates it may raise.
SearchMayRaise(f, geo) == geo # "none" /\ ~\E i \in DOMAIN f.rows : valid_mask(f.rows[i])

StepL(f, geo) ==
    IF geo = "none"
    THEN Assign(f, "Country", LAMBDA r : FillNa(r["Country_of_Incident"], StrV("Unknown")))
    ELSE Assign(Assign(f, "Country",
                       LAMBDA r : IF valid_mask(r) THEN StrV(geo)
                                  ELSE StrV("International Waters")),
                "Country_Name", LAMBDA r : IF valid_mask(r) THEN StrV("Place") ELSE NaN)

\* M: the first day of the reported month; a month name outside month_map,
\* or a missing one, gives no date.
month_map == {<<"January", 1>>, <<"March", 3>>}

DateOf(r) ==
    LET y == r["Reported_Year"]
        m == r["Reported_Month"]
    IN  IF IsInt(y) /\ IsStr(m) /\ \E p \in month_map : p[1] = m[2]
        THEN <<"datetime", <<y[2], (CHOOSE p \in month_map : p[1] = m[2])[2]>>>>
        ELSE NaN

StepM(f) == Assign(f, "Date", DateOf)

\* frame.rename(columns=map): map is a set of <<old, new>> pairs.
Renamed(map, c) ==
    IF \E p \in map : p[1] = c THEN (CHOOSE p \in map : p[1] = c)[2] ELSE c

Rename(f, map) ==
    LET old(c) == CHOOSE k \in Range(f.cols) : Renamed(map, k) = c
    IN  Tabulated(
          [cols |-> [k \in DOMAIN f.cols |-> Renamed(map, f.cols[k])],
           rows |-> [i \in DOMAIN f.rows |->
                       [c \in {Renamed(map, k) : k \in Range(f.cols)} |->
                           f.rows[i][old(c)]]]])

\* N: the cleaner's rename_map.
cleaner_rename_map ==
    { <<"Country_of_Origin", "Country of Origin">>,
      <<"Region_of_Origin", "Region of Origin">>,
      <<"Country_of_Incident", "Country of Incident">>,
      <<"Migration_Route", "Migration Route">>,
      <<"Location_Description", "Location Description">>,
      <<"Information_Source", "Info Source">>,
      <<"UNSD_Geographical_Grouping", "UNSD_Geographical_Grouping">> }

StepN(f) == Rename(f, cleaner_rename_map)

\* Steps D to G, H to K and L to N on the frame of the download.
CleanedToG(rows) == StepG(StepF(StepE(StepD([cols |-> RawColumns, rows |-> rows]))))

CleanedToK(f) == StepK(StepJ(StepI(StepH(f))))

Cleaned(f, geo) == StepN(StepM(StepL(f, geo)))

\* Whether the run ends in an exception that no step catches.
CleanerRaises(rows) ==
    SplitRaises([cols |-> RawColumns, rows |-> rows])

(***************************************************************************)
(* The CSV file between the scripts.  A cell of the file is text:          *)
(* <<"text", s>>, the digits of a number <<"digits", n>>, the text of a    *)
(* date <<"datetext", d>> or of a float <<"floattext", n>>.                *)
(***************************************************************************)
\* Some of the strings read_csv takes for a missing value.
NaStrings == {"", "NA", "N/A", "NaN", "nan", "null", "NULL"}

\* DataFrame.to_csv(index=False), cell by cell.
WriteCsv(cell) ==
    CASE IsNull(cell) -> <<"text", "">>
      [] IsStr(cell) -> <<"text", cell[2]>>
      [] IsInt(cell) -> <<"digits", cell[2]>>
      [] cell[1] \in {"datetime", "datestr"} -> <<"datetext", cell[2]>>
      [] cell[1] = "iso" -> <<"isotext", cell[2]>>
      [] OTHER -> <<"floattext", cell[2]>>

\* pd.read_csv, cell by cell: a date comes back as a string.
ReadCsv(text) ==
    CASE text[1] = "text" -> IF text[2] \in NaStrings THEN NaN ELSE StrV(text[2])
      [] text[1] = "digits" -> IntV(text[2])
      [] text[1] = "datetext" -> <<"datestr", text[2]>>
      [] OTHER -> <<"3cbrt", text[2]>>

to_csv(f) ==
    Tabulated([f EXCEPT !.rows =
                 [i \in DOMAIN f.rows |->
                     [c \in DOMAIN f.rows[i] |-> WriteCsv(f.rows[i][c])]]])

read_csv(file) ==
    Tabulated([file EXCEPT !.rows =
                 [i \in DOMAIN file.rows |->
                     [c \in DOMAIN file.rows[i] |-> ReadCsv(file.rows[i][c])]]])

(***************************************************************************)
(* standardize_columns.py                                                  *)
(***************************************************************************)
\* The renames of the cause columns alone: what C27 rules out.
rename_map_of_causes ==
    { <<"COD_Accidental death", "Other Accidents">>,
      <<"COD_Drowning", "Drowning">>,
      <<"COD_Lack of Shelter, Food, or Water", "Lack of Shelter, Food, or Water">>,
      <<"COD_Mixed or unknown", "Mixed or unknown">>,
      <<"COD_Sickness / lack of access to adequate healthcare", "Sickness">>,
      <<"COD_Vehicle accident / death linked to hazardous transport",
        "Transportation Accident">>,
      <<"COD_Violence", "Violence">> }

rename_map ==
    { <<"COD_Accidental death", "Other Accidents">>,
      <<"COD_Drowning", "Drowning">>,
      <<"COD_Lack of Shelter, Food, or Water", "Lack of Shelter, Food, or Water">>,
      <<"COD_Mixed or unknown", "Mixed or unknown">>,
      <<"COD_Sickness / lack of access to adequate healthcare", "Sickness">>,
      <<"COD_Vehicle accident / death linked to hazardous transport",
        "Transportation Accident">>,
      <<"COD_Violence", "Violence">>,
      <<"Migration Route", "Migration_Route">>,
      <<"Source_Quality", "Source Quality">> }

desired_order == StandardColumns

\* df[existing_cols]: the columns outside desired_order left out, what C28
\* rules out.
ReorderedWithoutExtras(f) ==
    LET existing_cols == SelectSeq(desired_order, LAMBDA c : Has(f.cols, c))
    IN  [cols |-> existing_cols,
         rows |-> [i \in DOMAIN f.rows |->
                     [c \in Range(existing_cols) |-> f.rows[i][c]]]]

\* df[existing_cols + extra_cols]
Reordered(f) ==
    LET existing_cols == SelectSeq(desired_order, LAMBDA c : Has(f.cols, c))
        extra_cols == SelectSeq(f.cols, LAMBDA c : ~Has(desired_order, c))
    IN  [f EXCEPT !.cols = existing_cols \o extra_cols]

\* The whole script: read, rename, reorder, write over the file.
Standardized(file) == to_csv(Reordered(Rename(read_csv(file), rename_map)))

(***************************************************************************)
(* SpecPipeline: the cleaner, standardize_columns.py and the start of      *)
(* app_advanced.py, run in any order over the file                         *)
(* MM_Dummies_CleanRefactored_Jan16.csv.  Here source is the download,     *)
(* columns and MM are the header and the rows of the file (no file yet:    *)
(* both empty), and issued counts the runs of standardize_columns.py since *)
(* the cleaner last wrote the file.                                        *)
(***************************************************************************)
\* Runs of standardize_columns.py followed after a run of the cleaner.
MaxRuns == 2

BaseRaw ==
    [c \in Range(RawColumns) |->
        CASE c = "Incident_ID" -> StrV("2020.MMP00001")
          [] c = "Reported_Year" -> IntV(2020)
          [] c = "Reported_Month" -> StrV("January")
          [] c = "Number_Dead" -> IntV(1)
          [] c = "Minimum_Missing" -> IntV(1)
          [] c = "Total_Dead_and_Missing" -> IntV(2)
          [] c = "Females" -> IntV(1)
          [] c = "Males" -> IntV(1)
          [] c = "Children" -> IntV(0)
          [] c = "Cause_of_Death" -> StrV("Drowning")
          [] c = "Coordinates" -> StrV("35, 18")
          [] c = "Region" -> StrV("Europe")
          [] c = "Migration_Route" -> StrV("Central Mediterranean")
          [] c = "Country_of_Incident" -> StrV("Greece")
          [] c = "URL" -> StrV("http://a,http://b")
          [] OTHER -> NaN]

\* Records that differ in cause, coordinates and counts: a record with
\* every cell missing but its year; one with more females than the total
\* and latitude 0; one with more children than the total and coordinates
\* that do not parse; one whose total has a thousands separator and whose
\* longitude is 0.
RawRows ==
    { BaseRaw,
      [c \in Range(RawColumns) |-> IF c = "Reported_Year" THEN IntV(2021) ELSE NaN],
      [BaseRaw EXCEPT !["Cause_of_Death"] = StrV("Violence,Accidental death"),
                      !["Coordinates"] = StrV("0, 18"),
                      !["Females"] = IntV(3), !["Males"] = IntV(0),
                      !["Children"] = IntV(2),
                      !["Country_of_Origin"] = StrV("Kenya")],
      [BaseRaw EXCEPT !["Cause_of_Death"] = StrV(Shelter),
                      !["Coordinates"] = StrV("abc"),
                      !["Total_Dead_and_Missing"] = IntV(3),
                      !["Females"] = IntV(0), !["Males"] = IntV(0),
                      !["Children"] = IntV(5),
                      !["Reported_Month"] = StrV("Smarch")],
      [BaseRaw EXCEPT !["Cause_of_Death"] = StrV("Drowning,Violence"),
                      !["Coordinates"] = StrV("35, 0"),
                      !["Total_Dead_and_Missing"] = StrV("1,000"),
                      !["Reported_Year"] = IntV(2021),
                      !["Reported_Month"] = StrV("March")] }

\* A download in which each of the seven causes standardize_columns.py
\* renames occurs.
FullFile ==
    [k \in 1..7 |->
        [BaseRaw EXCEPT !["Cause_of_Death"] =
            StrV(<<"Accidental death", "Drowning", Shelter, "Mixed or unknown",
                   Sickness, Vehicle, "Violence">>[k])]]

RawFiles == SeqsUpTo(RawRows, MaxRows) \cup {FullFile}

InitPipeline ==
    /\ prog = "pipeline"
    /\ source \in RawFiles
    /\ columns = <<>>
    /\ MM = <<>>
    /\ cache = <<>>
    /\ data = <<>>
    /\ sel = Untouched
    /\ ret = NoCall
    /\ issued = 0

Step(name, args, exc, out) ==
    /\ ret' = [cb |-> name, args |-> args, exc |-> exc, out |-> out]
    /\ UNCHANGED <<prog, source, cache, data, sel>>

\* The cleaner run from B to O, with or without reverse_geocoder.
run_cleaner ==
    \E geo \in Geocoders :
        IF CleanerRaises(source)
        THEN /\ Step("run_cleaner", geo, "KeyError", <<>>)
             /\ UNCHANGED <<columns, MM, issued>>
        ELSE \E g \in {CleanedToG(source)} : \E k \in {CleanedToK(g)} :
             \E frame \in {Cleaned(k, geo)} :
                \/ /\ Step("run_cleaner", geo, "", <<>>)
                   /\ \E file \in {to_csv(frame)} :
                         columns' = file.cols /\ MM' = file.rows
                   /\ issued' = 0
                \/ /\ SearchMayRaise(frame, geo)
                   /\ Step("run_cleaner", geo, "IndexError", <<>>)
                   /\ UNCHANGED <<columns, MM, issued>>

\* standardize_columns.py run over the file.
standardize_columns ==
    IF columns = <<>>
    THEN /\ Step("standardize_columns", <<>>, "FileNotFoundError", <<>>)
         /\ UNCHANGED <<columns, MM, issued>>
    ELSE /\ issued < MaxRuns
         /\ \E before \in {[cols |-> columns, rows |-> MM]} :
               \E after \in {Standardized(before)} :
                  /\ Step("standardize_columns", [file |-> before, runs |-> issued],
                          "", <<>>)
                  /\ columns' = after.cols
                  /\ MM' = after.rows
                  /\ issued' = issued + 1

\* app_advanced.py imported: load_data and the three option lists.
start_app_advanced ==
    /\ Step("app_advanced", issued,
            CASE columns = <<>> -> "FileNotFoundError"
              [] ~Starts("app_advanced", columns, MM) -> "KeyError"
              [] OTHER -> "",
            [primary_cod |-> HasPrimaryCod(columns)])
    /\ UNCHANGED <<columns, MM, issued>>

NextPipeline ==
    \/ run_cleaner
    \/ standardize_columns
    \/ start_app_advanced

SpecPipeline == InitPipeline /\ [][NextPipeline]_vars

(***************************************************************************)
(* Properties of the cleaner and of the pipeline.                          *)
(***************************************************************************)
\* The number written in column c of record i of the file.
Written(i, c) == MM[i][c][2]

\* C24: in every record the cleaner writes, Unknown_Sex is
\* Total_Dead_and_Missing - Females - Males and Unknown_Age_Status is
\* Total_Dead_and_Missing - Children, neither cut off at 0, and
\* Confirmed_Adults is Males + Females - Children when Unknown_Age_Status
\* is not 0, and 0 when it is.
C24_DerivedColumns ==
    (prog = "pipeline" /\ columns # <<>>) =>
        \A i \in DOMAIN MM :
            LET total == Written(i, "Total_Dead_and_Missing")
                females == Written(i, "Females")
                males == Written(i, "Males")
                children == Written(i, "Children")
            IN  /\ \A c \in {"Total_Dead_and_Missing", "Females", "Males", "Children",
                             "Unknown_Sex", "Unknown_Age_Status", "Confirmed_Adults"} :
                      MM[i][c][1] = "digits"
                /\ Written(i, "Unknown_Sex") = total - females - males
                /\ Written(i, "Unknown_Age_Status") = total - children
                /\ Written(i, "Confirmed_Adults") =
                      IF total - children # 0 THEN males + females - children ELSE 0

\* The cleaner wrote a record with more females than dead and missing, whose
\* children make up the whole total.
C24_Witness ==
    /\ ret.cb = "run_cleaner"
    /\ ret.exc = ""
    /\ \E i \in DOMAIN MM :
          /\ Written(i, "Unknown_Sex") < 0
          /\ Written(i, "Unknown_Age_Status") = 0
          /\ Written(i, "Males") + Written(i, "Females") - Written(i, "Children") # 0
          /\ Written(i, "Confirmed_Adults") = 0

\* The indicator columns as the cleaner names them, and the seven of them
\* that standardize_columns.py renames.
PrefixedNames == {CodNames[k][2] : k \in DOMAIN CodNames}

RenamedPrefixed == {p[1] : p \in rename_map} \cap PrefixedNames

\* C27: the cleaner's output alone has 'Migration Route' and 'COD_' names
\* and neither 'Migration_Route' nor one of the seven unprefixed cause
\* names, so app_advanced.py started on it fails; after standardize_columns
\* has run, 'Migration_Route' is there, no renamed 'COD_' name is left,
\* app_advanced.py starts, and a download holding all seven causes gives all
\* seven columns.
C27_ColumnsOnlyAfterStandardize ==
    (prog = "pipeline" /\ columns # <<>>) =>
        /\ issued = 0 =>
              /\ Has(columns, "Migration Route")
              /\ ~Has(columns, "Migration_Route")
              /\ \A c \in Range(AdvancedCodColumns) : ~Has(columns, c)
              /\ source = FullFile => RenamedPrefixed \subseteq Range(columns)
              /\ ret.cb = "app_advanced" => ret.exc = "KeyError"
        /\ issued >= 1 =>
              /\ Has(columns, "Migration_Route")
              /\ ~Has(columns, "Migration Route")
              /\ \A c \in RenamedPrefixed : ~Has(columns, c)
              /\ source = FullFile => HasPrimaryCod(columns)
              /\ ret.cb = "app_advanced" => ret.exc = ""

\* app_advanced.py started after the cleaner and one run of
\* standardize_columns.py over a download with all seven causes.
C27_Witness ==
    /\ source = FullFile
    /\ issued = 1
    /\ ret.cb = "app_advanced"
    /\ ret.exc = ""
    /\ ret.out.primary_cod

\* The columns of a header that desired_order does not name, in order.
Extras(cols) == SelectSeq(cols, LAMBDA c : ~Has(desired_order, c))

IndicatorColumns(cols) ==
    (PrefixedNames \cup Range(AdvancedCodColumns)) \cap Range(cols)

\* The indicator columns set in record i of the file.
SetIndicators(i) == {c \in IndicatorColumns(columns) : MM[i][c] = <<"digits", 1>>}

\* C29: every record of the file the cleaner writes has exactly one
\* indicator column set, also after standardize_columns.py renamed seven of
\* them, so for any subset of the records the counts of the seven categories
\* sum to at most the number of records.
C29_ExactlyOneIndicator ==
    (prog = "pipeline" /\ columns # <<>>) =>
        /\ \A i \in DOMAIN MM : Cardinality(SetIndicators(i)) = 1
        /\ \A S \in SUBSET DOMAIN MM :
              SumOver([c \in Range(AdvancedCodColumns) |->
                          Cardinality({i \in S : c \in SetIndicators(i)})],
                      Range(AdvancedCodColumns)) <= Cardinality(S)

\* The cleaner wrote a record that lists two causes and one without a cause.
C29_Witness ==
    /\ ret.cb = "run_cleaner"
    /\ ret.exc = ""
    /\ Has(columns, "COD_Violence,Accidental death")
    /\ Has(columns, "COD_Unknown")

(***************************************************************************)
(* The CSV download of app.py and of Missing_Migrants_061121.py.  n_clicks *)
(* is None until the button is clicked first: 0 stands for None.           *)
(***************************************************************************)
\* Clicks of the download button followed in SpecDownload.
MaxClicks == 2

\* The cells a modelled record has; its flags are the set r.cod.
RowFields == DOMAIN BaseRow \ {"cod"}

\* One line of to_csv: the cells and flags of the columns in header.
CsvRow(r, header) ==
    [cells |-> [c \in RowFields \cap Range(header) |-> WriteCsv(r[c])],
     flags |-> r.cod \cap Range(header)]

\* pd.DataFrame(data).to_csv(index=False): a frame made from no record has
\* no column.
CsvOf(cols, d) ==
    [index |-> FALSE,
     header |-> IF d = <<>> THEN <<>> ELSE cols,
     rows |-> [i \in DOMAIN d |-> CsvRow(d[i], cols)]]

\* MM_download.iloc[0:, 0:20].to_csv(): the first 20 columns, each line led
\* by the row index.
LegacyCsvOf(cols, d) ==
    LET first == IF d = <<>> THEN <<>> ELSE SubSeq(cols, 1, 20)
    IN  [index |-> TRUE,
         header |-> first,
         rows |-> [i \in DOMAIN d |-> CsvRow(d[i], first)]]

PreventUpdate == [exc |-> "PreventUpdate", out |-> <<>>]

\* download_csv without the test of ctx.triggered_id: what C26 rules out.
DownloadCsvOnAnyTrigger(cols, n_clicks, d, triggered_id) ==
    IF n_clicks = 0 THEN PreventUpdate
    ELSE [exc |-> "", out |-> [content |-> CsvOf(cols, d),
                                filename |-> "Missing_Migrants.csv"]]

\* app.py, download_csv(n_clicks, data)
DownloadCsv(cols, n_clicks, d, triggered_id) ==
    IF n_clicks = 0 THEN PreventUpdate
    ELSE IF triggered_id # "btn" THEN PreventUpdate
    ELSE [exc |-> "", out |-> [content |-> CsvOf(cols, d),
                                filename |-> "Missing_Migrants.csv"]]

\* Missing_Migrants_061121.py, callback(n_clicks, data)
LegacyDownload(cols, n_clicks, d, triggered_id) ==
    IF n_clicks = 0 THEN PreventUpdate
    ELSE [exc |-> "", out |-> [content |-> LegacyCsvOf(cols, d),
                                filename |-> "Missing_Migrants.csv"]]

Download(p, cols, n_clicks, d, triggered_id) ==
    IF p = "app" THEN DownloadCsv(cols, n_clicks, d, triggered_id)
    ELSE LegacyDownload(cols, n_clicks, d, triggered_id)

(***************************************************************************)
(* SpecDownload: app.py and Missing_Migrants_061121.py followed through    *)
(* selection changes and clicks of the download button.  Dash invokes the  *)
(* download callback when the button is clicked and when the Store's data  *)
(* was set.                                                                *)
(***************************************************************************)
DrowningOnly == [Untouched EXCEPT !.cod = StrV("Drowning")]

DownloadSelections == {Untouched, EuropeOnly, DrowningOnly}

InitDownload ==
    /\ prog \in {"app", "legacy"}
    /\ columns = StandardColumns
    /\ source \in ViewFiles
    /\ Starts(prog, columns, source)
    /\ MM = Load(prog, columns, source)
    /\ cache = <<>>
    /\ data = <<>>
    /\ sel = Untouched
    /\ ret = NoCall
    /\ issued = 0

\* A dropdown is changed and the store callback runs.
select_app ==
    /\ prog = "app"
    /\ \E s \in DownloadSelections : StoreCall(s)
    /\ UNCHANGED issued

select_legacy ==
    /\ prog = "legacy"
    /\ \E s \in DownloadSelections : LegacyStoreCall(s)

Invoked(n_clicks, triggered_id) ==
    \E res \in {Download(prog, columns, n_clicks, data, triggered_id)} :
        /\ ret' = [cb |-> "download_csv",
                   args |-> [n_clicks |-> n_clicks, triggered_id |-> triggered_id],
                   exc |-> res.exc, out |-> res.out]
        /\ UNCHANGED <<prog, columns, source, MM, cache, data, sel>>

\* The Store's data was set by the store callback: Input("store-data", "data").
store_changed ==
    /\ ret.cb \in {"update_store", "legacy_filter"}
    /\ ret.exc = ""
    /\ Invoked(issued, "store-data")
    /\ UNCHANGED issued

\* The button is clicked: Input("btn", "n_clicks").  The page is served
\* with the store callback's initial call made (it has no
\* prevent_initial_call), so a click follows a call of it.
click ==
    /\ ret.cb # ""
    /\ issued < MaxClicks
    /\ issued' = issued + 1
    /\ Invoked(issued + 1, "btn")

NextDownload ==
    \/ select_app
    \/ select_legacy
    \/ store_changed
    \/ click

SpecDownload == InitDownload /\ [][NextDownload]_vars

(***************************************************************************)
(* Properties of the download.                                             *)
(***************************************************************************)
Emitted(r) == r.cb = "download_csv" /\ r.exc = ""

\* The records of the store that match the dropdowns, in the store's order,
\* as the Store holds records.
CurrentSubset == Json(SelectSeq(MM, LAMBDA r : RowMatches(r, sel)))

\* The text of a CSV cell shows the value of a record's cell.
Shows(text, cell) ==
    CASE IsNull(cell) -> text = <<"text", "">>
      [] IsInt(cell) -> text = <<"digits", cell[2]>>
      [] OTHER -> text[2] = cell[2]

\* C25: the CSV the download callback produces holds exactly the records of
\* the current filtered subset, one line per record in the subset's order,
\* each with the record's columns unchanged.
C25_CsvIsTheSubset ==
    Emitted(ret) =>
        LET csv == ret.out.content
        IN  /\ Len(csv.rows) = Len(CurrentSubset)
            /\ \A i \in DOMAIN csv.rows :
                  /\ DOMAIN csv.rows[i].cells = RowFields \cap Range(columns)
                  /\ \A c \in DOMAIN csv.rows[i].cells :
                        Shows(csv.rows[i].cells[c], CurrentSubset[i][c])
                  /\ csv.rows[i].flags = CurrentSubset[i].cod \cap Range(columns)

\* C26: in app.py a download is emitted only in the step of a click of the
\* download button, which leaves the Store as it is: no change of the Store
\* emits one, whether or not the button was clicked before, and none is
\* emitted before the first click.
C26_DownloadOnlyOnClick ==
    [][(prog = "app" /\ Emitted(ret')) => (issued' = issued + 1 /\ data' = data)]_vars

\* The Store was set after a click, and the download callback it invoked
\* emitted nothing.
C26_Witness ==
    /\ prog = "app"
    /\ ret.cb = "download_csv"
    /\ ret.args.triggered_id = "store-data"
    /\ ret.args.n_clicks >= 1
    /\ ret.exc = "PreventUpdate"
    /\ data # <<>>


(***************************************************************************)
(* Primary_COD and the bubble chart of app_advanced.py.                    *)
(***************************************************************************)
\* The label is the first category of COD_COLUMNS flagged in r, or 'Unknown'.
IsFirstFlagged(r, label) ==
    \/ /\ \A k \in DOMAIN AdvancedCodColumns : AdvancedCodColumns[k] \notin r.cod
       /\ label = StrV("Unknown")
    \/ \E k \in DOMAIN AdvancedCodColumns :
          /\ AdvancedCodColumns[k] \in r.cod
          /\ \A j \in 1..(k - 1) : AdvancedCodColumns[j] \notin r.cod
          /\ label = StrV(AdvancedCodColumns[k])

\* The records of the Store that have a region.
WithRegion == {i \in DOMAIN data : ~IsNull(data[i].Region)}

\* The records of the group (region, label).
InGroup(k) == {i \in WithRegion : data[i].Region = k[1] /\ data[i].Primary_COD = k[2]}

\* The sum of Total_Dead_and_Missing over the records of S.
TotalOf(S) == SumOver([i \in DOMAIN data |-> data[i].Total_Dead_and_Missing[2]], S)

\* The incident counts the bubble chart shows, added up.
ShownIncidents ==
    IF ret.out.empty THEN 0
    ELSE SumOver([k \in DOMAIN ret.out.bubbles |-> ret.out.bubbles[k].incidents],
                 DOMAIN ret.out.bubbles)

\* Every record of the Store carries the first flagged category.
PrimaryCodIsFirstFlagged ==
    \A i \in DOMAIN data : IsFirstFlagged(data[i], data[i].Primary_COD)

\* C30 as stated: with all seven cause columns present every record carries
\* the first flagged category of COD_COLUMNS, or 'Unknown', as Primary_COD,
\* and the incident counts of the groups by Primary_COD the bubble chart
\* shows sum to the number of records that have a region.
C30_CountsSumToRegionRecords ==
    (ret.cb = "update_bubble" /\ HasPrimaryCod(columns)) =>
        /\ PrimaryCodIsFirstFlagged
        /\ ShownIncidents = Cardinality(WithRegion)

\* C30 as the code has it: every record carries the first flagged category,
\* or 'Unknown'; each record with a region is in exactly one group
\* (Region, Primary_COD); the chart shows the groups whose
\* Total_Dead_and_Missing sum is positive, each with the number of its
\* records that have an Incident_ID, and shows nothing when the file lacks
\* Incident_ID.
C30_PrimaryCodGroups ==
    (ret.cb = "update_bubble" /\ HasPrimaryCod(columns)) =>
        /\ ret.exc = ""
        /\ PrimaryCodIsFirstFlagged
        /\ \A i \in WithRegion :
              Cardinality({k \in {<<data[j].Region, data[j].Primary_COD>> :
                                     j \in WithRegion} : i \in InGroup(k)}) = 1
        /\ IF data = <<>> \/ ~Has(columns, "Incident_ID")
           THEN ret.out.empty
           ELSE /\ ~ret.out.empty
                /\ \A i \in WithRegion :
                      LET k == <<data[i].Region, data[i].Primary_COD>>
                      IN  k \in DOMAIN ret.out.bubbles <=> TotalOf(InGroup(k)) > 0
                /\ \A k \in DOMAIN ret.out.bubbles :
                      /\ InGroup(k) # {}
                      /\ ret.out.bubbles[k].total = TotalOf(InGroup(k))
                      /\ ret.out.bubbles[k].incidents =
                            Cardinality({i \in InGroup(k) :
                                            ~IsNull(data[i].Incident_ID)})
                /\ ShownIncidents =
                      Cardinality({i \in WithRegion :
                          /\ ~IsNull(data[i].Incident_ID)
                          /\ TotalOf(InGroup(<<data[i].Region,
                                               data[i].Primary_COD>>)) > 0})

\* The chart answered over a record with two flags and a group it leaves out.
C30_Witness ==
    /\ ret.cb = "update_bubble"
    /\ columns = StandardColumns
    /\ ~ret.out.empty
    /\ \E i \in WithRegion :
          /\ {"Drowning", "Violence"} \subseteq data[i].cod
          /\ data[i].Primary_COD = StrV("Drowning")
    /\ \E i \in WithRegion :
          <<data[i].Region, data[i].Primary_COD>> \notin DOMAIN ret.out.bubbles

====
